---- MODULE Spec2Model ----
(***************************************************************************)
(* InfraProof: the ExecutionRegistry ledger contract, and the backend's    *)
(* execution cycle (benchmark -> artifacts -> storage -> receipt).         *)
(*                                                                         *)
(* Spec       the ExecutionRegistry contract called by arbitrary accounts. *)
(*            One action per transaction: the EVM executes transactions    *)
(*            one after the other, a revert rolls the whole call back.     *)
(* SpecCycle  the backend: POST /tasks/create and concurrent               *)
(*            POST /tasks/execute/:taskId requests against one artifacts   *)
(*            directory, one storage bucket and the contract. One action   *)
(*            per await of the handler: between two awaits a request runs  *)
(*            alone, at an await any other request may run.                *)
(***************************************************************************)
EXTENDS Integers, Sequences, FiniteSets, TLC

(* ------------------------------ bounds -------------------------------- *)
\* createTask is explored until nextTaskId reaches MaxTasks
MaxTasks == 2
\* at most MaxTx transactions are sent to the contract
MaxTx == 3
\* the accounts that send transactions are 1..NumCallers
NumCallers == 2
\* the non-zero 32-byte digests passed to the contract are 1..NumDigests
NumDigests == 2
\* execute requests in flight at the same time are 1..NumReqs
NumReqs == 2
\* at most MaxCycles execute requests are served
MaxCycles == 2
\* the distinct BenchmarkResult documents a run may produce are 1..NumResults
NumResults == 2
\* execute requests name the task ids 0..NumExecTasks-1
NumExecTasks == 1
\* the contents of a regular file handed to hashArtifactFolder are 0..NumBytes
NumBytes == 2
\* hashArtifactFolder is applied to a folder at most MaxHashCalls times
MaxHashCalls == 2
\* each field of a task specification takes one of NumValues values
NumValues == 2
\* a benchmark phase emits at most MaxProgress progress lines
MaxProgress == 1
\* at most MaxLogged execute requests write an execution.log
MaxLogged == 3
\* at most MaxGets GET requests are served
MaxGets == 3
\* the disk phase is asked for 0..MaxDiskMB chunks of 1 MB
MaxDiskMB == 2
\* the largest integer a cpuTest loop tests before its time is up
MaxNum == 60
\* clicks on the web client's button, and receipt transaction hashes it is told
MaxFlows == 3
NumTxHashes == 2

(* ----------------------------- constants ------------------------------ *)
\* address(0): the default value of an unset address in a mapping
ZeroAddress == 0
\* bytes32(0)
ZeroHash == 0
\* marks an argument or a return value a call does not have
NoValue == -1

\* msg.sender of a transaction is the account that signed it, never address(0)
Callers == 1..NumCallers
Digests == {ZeroHash} \cup (1..NumDigests)
\* the ids a caller may pass; id MaxTasks is never assigned within the bound
TaskIds == 0..MaxTasks

VARIABLES
    nextTaskId,   \* uint256 public nextTaskId
    tasks,        \* mapping(uint256 => Task)
    receipts,     \* mapping(uint256 => Receipt)
    events,       \* the contract's event log, in emission order
    now,          \* block.timestamp of the block the next transaction is mined in
    result        \* outcome of the last transaction, as its sender sees it

VARIABLES
    pc,           \* per execute request: the await it is suspended at
    loc,          \* per execute request: the handler's local variables and its response
    dirs,         \* artifacts/task-<taskId> on the backend's disk
    storage,      \* the objects task-<taskId>/<fileName> of the Greenfield bucket
    cycles,       \* number of execute requests accepted so far
    configured    \* bucket, privateKey and accountAddress are all set

VARIABLES
    run,          \* per execute request: where its runBenchmark call stands
    scratch       \* the scratch directories of the disk phase, by path

VARIABLES
    folder,       \* a folder handed to hashArtifactFolder: its entries, by name
    hashing       \* where a hashArtifactFolder call stands, and what calls returned

VARIABLES
    taskSpecs,    \* the task specifications handed to hashJSON
    specHashes    \* what hashJSON returned for each of them

VARIABLES
    clients,      \* per account: where its call of the client's createTask stands
    logger        \* the logger module's info function, and what captured it

VARIABLES
    cpuLoop,      \* a cpuTest call: the locals of its loop, and what it returned
    web           \* the web client's Index component: its state and its handler

VARIABLES
    gets,         \* per GET request: the await its handler is suspended at, its locals
    answers       \* the responses to GET requests, in the order they were sent

vars == <<nextTaskId, tasks, receipts, events, now, result,
          pc, loc, dirs, storage, cycles, configured, run, scratch,
          folder, hashing, taskSpecs, specHashes, gets, answers, clients, logger, cpuLoop, web>>
ledger == <<nextTaskId, tasks, receipts, events>>
bench == <<run, scratch>>
hash == <<folder, hashing>>
json == <<taskSpecs, specHashes>>
http == <<gets, answers>>
others == <<cpuLoop, web>>
more == <<json, http, clients, logger, others>>
backend == <<pc, loc, dirs, storage, cycles, configured, bench, hash, more>>

\* struct Task / struct Receipt; an unset mapping slot reads as all zeroes
Task(requester, specHash, createdAt) ==
    [requester |-> requester, specHash |-> specHash, createdAt |-> createdAt]
Receipt(operator, artifactHash, resultHash, completedAt) ==
    [operator |-> operator, artifactHash |-> artifactHash,
     resultHash |-> resultHash, completedAt |-> completedAt]
NoTask == Task(ZeroAddress, ZeroHash, 0)
NoReceipt == Receipt(ZeroAddress, ZeroHash, ZeroHash, 0)

\* event TaskCreated(taskId, requester, specHash)
TaskCreated(taskId, requester, specHash) ==
    [name |-> "TaskCreated", taskId |-> taskId, who |-> requester,
     specHash |-> specHash, artifactHash |-> ZeroHash, resultHash |-> ZeroHash]
ReceiptSubmitted_SwappedHashes(taskId, operator, artifactHash, resultHash) ==
    [name |-> "ReceiptSubmitted", taskId |-> taskId, who |-> operator,
     specHash |-> ZeroHash, artifactHash |-> resultHash, resultHash |-> artifactHash]

\* event ReceiptSubmitted(taskId, operator, artifactHash, resultHash)
ReceiptSubmitted(taskId, operator, artifactHash, resultHash) ==
    [name |-> "ReceiptSubmitted", taskId |-> taskId, who |-> operator,
     specHash |-> ZeroHash, artifactHash |-> artifactHash, resultHash |-> resultHash]

\* What the sender of a transaction learns: the call, the revert reason ("ok"
\* when it did not revert), the return value, and which digest arguments were
\* bytes32(0). The digests a successful call passed are in the storage slot and
\* in the event it wrote.
CallResult(op, sender, taskId, specHash, artifactHash, resultHash, err, ret) ==
    [op |-> op, sender |-> sender, taskId |-> taskId,
     zeroSpecHash |-> (op = "createTask" /\ specHash = ZeroHash),
     zeroArtifactHash |-> (op = "submitReceipt" /\ artifactHash = ZeroHash),
     zeroResultHash |-> (op = "submitReceipt" /\ resultHash = ZeroHash),
     err |-> err, ret |-> ret]

InitLedger ==
    /\ nextTaskId = 0
    /\ tasks = [i \in TaskIds |-> NoTask]
    /\ receipts = [i \in TaskIds |-> NoReceipt]
    /\ events = <<>>
    /\ now = 1
    /\ result = CallResult("none", ZeroAddress, NoValue, ZeroHash, ZeroHash, ZeroHash,
                           "ok", NoValue)

\* Every transaction, reverted or not, is mined: here each in a block of its
\* own, one time unit after the previous one.
Mined ==
    /\ now <= MaxTx
    /\ now' = now + 1

(* --------------------------- createTask ------------------------------- *)
createTaskRevert_NoCheck(specHash) == "ok"

\* the require of createTask: the revert reason, or "ok"
createTaskRevert(specHash) ==
    IF specHash = ZeroHash THEN "Spec hash cannot be zero" ELSE "ok"

createTaskStore_Overwrite(taskId, sender, specHash) ==
    [tasks EXCEPT ![0] = Task(sender, specHash, now)]

\* tasks[taskId] = Task({requester: msg.sender, specHash: specHash, createdAt: block.timestamp})
createTaskStore(taskId, sender, specHash) ==
    [tasks EXCEPT ![taskId] = Task(sender, specHash, now)]

createTaskNextId_Stuck(id) == IF id >= 1 THEN id ELSE id + 1

\* nextTaskId++
createTaskNextId(id) == id + 1

createTask(sender, specHash) ==
    LET err == createTaskRevert(specHash)
        taskId == nextTaskId
    IN  /\ Mined
        /\ IF err # "ok"
           THEN /\ result' = CallResult("createTask", sender, NoValue, specHash,
                                        ZeroHash, ZeroHash, err, NoValue)
                /\ UNCHANGED ledger
           ELSE /\ nextTaskId < MaxTasks
                /\ nextTaskId' = createTaskNextId(nextTaskId)
                /\ tasks' = createTaskStore(taskId, sender, specHash)
                /\ events' = Append(events, TaskCreated(taskId, sender, specHash))
                /\ result' = CallResult("createTask", sender, NoValue, specHash,
                                        ZeroHash, ZeroHash, "ok", taskId)
                /\ UNCHANGED receipts

(* -------------------------- submitReceipt ----------------------------- *)
submitReceiptRevert_NoDuplicateCheck(taskId, artifactHash, resultHash) ==
    IF tasks[taskId].requester = ZeroAddress THEN "Task does not exist"
    ELSE IF artifactHash = ZeroHash THEN "Artifact hash cannot be zero"
    ELSE IF resultHash = ZeroHash THEN "Result hash cannot be zero"
    ELSE "ok"

submitReceiptRevert_NoTaskCheck(taskId, artifactHash, resultHash) ==
    IF receipts[taskId].operator # ZeroAddress THEN "Receipt already submitted"
    ELSE IF artifactHash = ZeroHash THEN "Artifact hash cannot be zero"
    ELSE IF resultHash = ZeroHash THEN "Result hash cannot be zero"
    ELSE "ok"

submitReceiptRevert_NoResultCheck(taskId, artifactHash, resultHash) ==
    IF tasks[taskId].requester = ZeroAddress THEN "Task does not exist"
    ELSE IF receipts[taskId].operator # ZeroAddress THEN "Receipt already submitted"
    ELSE IF artifactHash = ZeroHash THEN "Artifact hash cannot be zero"
    ELSE "ok"

submitReceiptRevert_HashesFirst(taskId, artifactHash, resultHash) ==
    IF artifactHash = ZeroHash THEN "Artifact hash cannot be zero"
    ELSE IF resultHash = ZeroHash THEN "Result hash cannot be zero"
    ELSE IF tasks[taskId].requester = ZeroAddress THEN "Task does not exist"
    ELSE IF receipts[taskId].operator # ZeroAddress THEN "Receipt already submitted"
    ELSE "ok"

\* the four requires of submitReceipt, in order: the first failing reason, or "ok"
submitReceiptRevert(taskId, artifactHash, resultHash) ==
    IF tasks[taskId].requester = ZeroAddress THEN "Task does not exist"
    ELSE IF receipts[taskId].operator # ZeroAddress THEN "Receipt already submitted"
    ELSE IF artifactHash = ZeroHash THEN "Artifact hash cannot be zero"
    ELSE IF resultHash = ZeroHash THEN "Result hash cannot be zero"
    ELSE "ok"

submitReceiptStore_RequesterAsOperator(taskId, sender, artifactHash, resultHash) ==
    [receipts EXCEPT ![taskId] =
        Receipt(tasks[taskId].requester, artifactHash, resultHash, now)]

\* receipts[taskId] = Receipt({operator: msg.sender, ..., completedAt: block.timestamp})
submitReceiptStore(taskId, sender, artifactHash, resultHash) ==
    [receipts EXCEPT ![taskId] = Receipt(sender, artifactHash, resultHash, now)]

submitReceipt(sender, taskId, artifactHash, resultHash) ==
    LET err == submitReceiptRevert(taskId, artifactHash, resultHash)
    IN  /\ Mined
        /\ result' = CallResult("submitReceipt", sender, taskId, ZeroHash,
                                artifactHash, resultHash, err, NoValue)
        /\ IF err # "ok"
           THEN UNCHANGED ledger
           ELSE /\ receipts' = submitReceiptStore(taskId, sender, artifactHash, resultHash)
                /\ events' = Append(events,
                                ReceiptSubmitted(taskId, sender, artifactHash, resultHash))
                /\ UNCHANGED <<nextTaskId, tasks>>

CallCreateTask ==
    /\ \E sender \in Callers, specHash \in Digests : createTask(sender, specHash)
    /\ UNCHANGED backend

CallSubmitReceipt ==
    /\ \E sender \in Callers, taskId \in TaskIds, artifactHash \in Digests,
          resultHash \in Digests :
              submitReceipt(sender, taskId, artifactHash, resultHash)
    /\ UNCHANGED backend

(* ===================== the backend's execution cycle ================== *)
\* the files of an artifact folder, numbered in the order String sort() gives:
\* execution.log < metrics.json < receipt.json < result.json
ExecutionLog == 1
MetricsJson == 2
ReceiptJson == 3
ResultJson == 4
FileNames == {ExecutionLog, MetricsJson, ReceiptJson, ResultJson}
\* no such file / no such object
NoFile == 0
\* an object the bucket has a createObject transaction for, but no payload yet
Unsealed == -1

Reqs == 1..NumReqs
\* the task ids execute requests are made for
ExecTaskIds == 0..(NumExecTasks - 1)
Results == 1..NumResults
\* the account of the backend's wallet, which signs all its transactions
Wallet == 1
\* hashJSON(taskSpec): some non-zero digest
SpecHashOfTask == 1

(* File contents are byte strings, written here as natural numbers; 0 is the   *)
(* empty byte string. Two files have the same number iff they have the same    *)
(* bytes.                                                                      *)
\* logs.join('\n') + '\n'
LogContent == 1
\* JSON.stringify(metrics, null, 2): a projection of benchmarkResults
MetricsContent(r) == 1 + r
\* JSON.stringify(benchmarkResults, null, 2)
ResultContent(r) == 1 + NumResults + r
\* JSON.stringify(receipt, null, 2): its createdAt makes it particular to the cycle
ReceiptContent(cycle) == 1 + 2 * NumResults + cycle

\* ethers.keccak256: no two byte strings collide, and none hashes to bytes32(0)
keccak256(bytes) == bytes + 1

\* one more than the largest digest of a file
DigestBase == ReceiptContent(MaxCycles + 1) + 2

\* the bytes of the hex digests hs[1], hs[2], ... written one after the other
RECURSIVE Concat(_)
Concat(hs) ==
    IF hs = <<>> THEN 0
    ELSE Concat(SubSeq(hs, 1, Len(hs) - 1)) * DigestBase + hs[Len(hs)]

\* the URL returned by uploadToGreenfield, on success and as the fallback alike
ArtifactUrl(taskId) == <<"greenfieldscan", "task", taskId>>

EmptyDir == [f \in FileNames |-> NoFile]
NoDir == [exists |-> FALSE, files |-> EmptyDir]
NoLocals ==
    [taskId |-> NoValue, cycle |-> 0, benchmarkResults |-> 0, files |-> {},
     fileName |-> NoFile, fileBuffer |-> NoFile, combinedHash |-> <<>>,
     artifactUrl |-> <<>>, artifactHash |-> ZeroHash, resultHash |-> ZeroHash,
     response |-> [status |-> 0, error |-> "", artifactHash |-> ZeroHash,
                   resultHash |-> ZeroHash]]

\* testDir = path.join(process.cwd(), 'temp-benchmark'): one path for every run
testDir(p) == "temp-benchmark"
ScratchPaths == {testDir(p) : p \in Reqs}
\* config.diskSizeMB of a request
DiskSizes == 0..MaxDiskMB
\* a scratch directory: whether it exists, and the length in MB of its
\* benchmark-test.dat (0: no such file; appendFile never leaves an empty one)
NoScratch == [exists |-> FALSE, testFile |-> 0]
\* a runBenchmark call: the await it is suspended at, the locals of diskTest,
\* and the phases that have returned their result, in the order they did
NoRun == [at |-> "idle", sizeMB |-> 0, i |-> 0, bytesWritten |-> NoValue, error |-> "",
          phases |-> <<>>]

InitBench ==
    /\ run = [p \in Reqs |-> NoRun]
    /\ scratch = [d \in ScratchPaths |-> NoScratch]

\* File names are strings, written as sequences of UTF-16 code units: with
\* the units a = 1 and b = 2 these are "a", "ab" and "b".
Names == {<<1>>, <<1, 2>>, <<2>>}
\* the name processArtifacts reads resultHash from, 'result.json'
resultJson == <<1, 2>>
\* what fs.stat reports for a name: nothing there, a directory (isFile() is
\* false), or a regular file, given by its bytes
NoEntry == -1
Directory == -2
FileBytes == 0..NumBytes
Folders == [Names -> {NoEntry, Directory} \cup FileBytes]
NoFolder == [n \in Names |-> NoEntry]
\* a hashArtifactFolder call: the await it is suspended at, its locals, and
\* what the calls made so far were given and returned
NoHashing ==
    [at |-> "idle", listing |-> <<>>, sortedFiles |-> <<>>, k |-> 0,
     combinedHash |-> <<>>, artifactHash |-> ZeroHash, calls |-> 0, returned |-> <<>>]

InitHash ==
    /\ folder = NoFolder
    /\ hashing = NoHashing

\* the two task specifications hashJSON is applied to
Which == {1, 2}
\* no object / nothing returned yet
NoObject == <<>>
NoSpecHash == <<>>
InitJson ==
    /\ taskSpecs = [w \in Which |-> NoObject]
    /\ specHashes = [w \in Which |-> NoSpecHash]

\* a GET handler: the await it is suspended at and its locals
NoGet == [at |-> "idle", segment |-> "", taskId |-> NoValue, task |-> NoTask]
InitHttp ==
    /\ gets = [p \in Reqs |-> NoGet]
    /\ answers = <<>>

\* a call of the client's createTask: the await it is suspended at, its
\* argument, the receipt of its transaction, and what it returned
NoCall == [at |-> "idle", specHash |-> ZeroHash, blockNumber |-> 0, logs |-> <<>>,
          taskId |-> NoValue, error |-> ""]
InitClients == clients = [c \in Callers |-> NoCall]

\* logger.info is the module's own function (no wrapper) or a chain of wrappers,
\* innermost first: each wrapper belongs to the request that installed it and
\* calls the function that was installed before it. Per request: the await its
\* handler is suspended at, its originalLog and logs, the progress lines its
\* phases have emitted, and the execution.log it wrote. received counts the
\* execute requests so far; a request is known by its number, and so is its
\* wrapper.
NoLogger ==
    [info |-> <<>>,
     received |-> 0,
     id |-> [p \in Reqs |-> 0],
     at |-> [p \in Reqs |-> "idle"],
     originalLog |-> [p \in Reqs |-> <<>>],
     logs |-> [p \in Reqs |-> <<>>],
     emitted |-> [p \in Reqs |-> <<>>],
     executionLog |-> [p \in Reqs |-> <<>>]]
InitLogger == logger = NoLogger

\* no cpuTest call has been made
NoCpuLoop == [at |-> "idle", num |-> 0, iterations |-> 0, primeCount |-> 0,
              returned |-> [iterations |-> 0, primesFound |-> 0]]
InitCpu == cpuLoop = NoCpuLoop
\* undefined / null of the component's state
Undefined == <<>>
\* useState("idle"), useState(null), useState(), useState(), useState(false);
\* handleCreateTask has not been called
NoWeb == [taskStatus |-> "idle", taskId |-> Undefined, receiptTxHash |-> Undefined,
          artifactUrl |-> Undefined, isProcessing |-> FALSE,
          at |-> "idle", createResponse |-> Undefined, executeResponse |-> Undefined,
          flows |-> 0, toasts |-> <<>>]
InitWeb == web = NoWeb
InitOthers == InitCpu /\ InitWeb

InitMore == InitJson /\ InitHttp /\ InitClients /\ InitLogger /\ InitOthers

InitBackend ==
    /\ pc = [p \in Reqs |-> "idle"]
    /\ loc = [p \in Reqs |-> NoLocals]
    /\ dirs = [t \in TaskIds |-> NoDir]
    /\ storage = [t \in TaskIds |-> EmptyDir]
    /\ cycles = 0
    /\ InitBench

Goto(p, label) == pc' = [pc EXCEPT ![p] = label]
TaskOf(p) == loc[p].taskId

\* the handler has returned: only the request and its response remain
Responded(p, response) ==
    [NoLocals EXCEPT !.taskId = loc[p].taskId, !.cycle = loc[p].cycle,
                     !.response = response]

Throw_ReportsSuccess(p, message) ==
    /\ Goto(p, "done")
    /\ loc' = [loc EXCEPT ![p] = Responded(p,
                  [status |-> 200, error |-> "", artifactHash |-> loc[p].artifactHash,
                   resultHash |-> loc[p].resultHash])]

\* catch (error): res.status(500).json({success: false, error: error.message})
Throw(p, message) ==
    /\ Goto(p, "done")
    /\ loc' = [loc EXCEPT ![p] = Responded(p,
                  [status |-> 500, error |-> message, artifactHash |-> ZeroHash,
                   resultHash |-> ZeroHash])]

\* POST /tasks/create: createTask(hashJSON(taskSpec)) signed by the wallet
PostCreate ==
    /\ createTask(Wallet, SpecHashOfTask)
    /\ UNCHANGED backend

\* POST /tasks/execute/:taskId is received with a valid id
Execute(p) ==
    /\ pc[p] \in {"idle", "done"}
    \* requests in flight are interchangeable: a new one takes the first free place
    /\ \A q \in Reqs : q < p => pc[q] \notin {"idle", "done"}
    /\ cycles < MaxCycles
    /\ cycles' = cycles + 1
    /\ \E taskId \in ExecTaskIds :
          loc' = [loc EXCEPT ![p] = [NoLocals EXCEPT !.taskId = taskId,
                                                     !.cycle = cycles + 1]]
    /\ Goto(p, "runBenchmark")
    /\ UNCHANGED <<ledger, now, result, dirs, storage, configured, bench, hash, more>>

runBenchmark_ContinuesOnError(p) ==
    /\ pc[p] = "runBenchmark"
    /\ \/ \E r \in Results :
             /\ loc' = [loc EXCEPT ![p].benchmarkResults = r]
             /\ Goto(p, "remove")
       \/ Goto(p, "remove") /\ UNCHANGED loc
    /\ UNCHANGED <<ledger, now, result, dirs, storage, cycles, configured, bench, hash, more>>

\* await runBenchmark(config): a result document, or an I/O error of a phase
runBenchmark(p) ==
    /\ pc[p] = "runBenchmark"
    /\ \/ \E r \in Results :
             /\ loc' = [loc EXCEPT ![p].benchmarkResults = r]
             /\ Goto(p, "remove")
       \/ Throw(p, "benchmark I/O error")
    /\ UNCHANGED <<ledger, now, result, dirs, storage, cycles, configured, bench, hash, more>>

\* fs.writeFile(path.join(artifactPath, name), content)
WriteFile(p, name, content, next) ==
    /\ IF dirs[TaskOf(p)].exists
       THEN /\ dirs' = [dirs EXCEPT ![TaskOf(p)].files[name] = content]
            /\ Goto(p, next)
            /\ UNCHANGED loc
       ELSE /\ Throw(p, "ENOENT")
            /\ UNCHANGED dirs

createArtifactFolder(p) ==
    /\ \/ /\ pc[p] = "remove"              \* await fs.remove(artifactPath)
          /\ dirs' = [dirs EXCEPT ![TaskOf(p)] = NoDir]
          /\ Goto(p, "ensureDir")
          /\ UNCHANGED loc
       \/ /\ pc[p] = "ensureDir"           \* await fs.ensureDir(artifactPath)
          /\ dirs' = [dirs EXCEPT ![TaskOf(p)].exists = TRUE]
          /\ Goto(p, "writeLog")
          /\ UNCHANGED loc
       \/ /\ pc[p] = "writeLog"
          /\ WriteFile(p, ExecutionLog, LogContent, "writeMetrics")
       \/ /\ pc[p] = "writeMetrics"
          /\ WriteFile(p, MetricsJson, MetricsContent(loc[p].benchmarkResults),
                       "writeResult")
       \/ /\ pc[p] = "writeResult"
          /\ WriteFile(p, ResultJson, ResultContent(loc[p].benchmarkResults), "upload")
    /\ UNCHANGED <<ledger, now, result, storage, cycles, configured, bench, hash, more>>

\* the names fs.readdir returns: all entries of the folder are regular files
Readdir(taskId) == {f \in FileNames : dirs[taskId].files[f] # NoFile}

\* the first name of a listing not yet visited. fs.readdir lists the names in
\* byte order (the runtime's scandir sorts them), which for these names is also
\* the order files.sort() gives
NextSorted(names) == CHOOSE f \in names : \A g \in names : f <= g

\* uploadToGreenfield returns url: its locals are gone
UploadReturns(p, url) ==
    /\ loc' = [loc EXCEPT ![p].artifactUrl = url, ![p].files = {},
                          ![p].fileName = NoFile, ![p].fileBuffer = NoFile]
    /\ Goto(p, "hashReaddir")

UploadFallback_Aborts(p) == Throw(p, "Greenfield upload failed")

\* catch (error) of uploadToGreenfield: fall back to the mock URL
UploadFallback(p) == UploadReturns(p, ArtifactUrl(TaskOf(p)))

uploadToGreenfield(p) ==
    /\ \/ /\ pc[p] = "upload"
          /\ IF configured
             THEN Goto(p, "upReaddir") /\ UNCHANGED loc
             ELSE \* await setTimeout(500); return mockUrl
                  UploadFallback(p)
          /\ UNCHANGED storage
       \/ /\ pc[p] = "upReaddir"           \* await fs.readdir(folderPath)
          /\ IF dirs[TaskOf(p)].exists
             THEN /\ loc' = [loc EXCEPT ![p].files = Readdir(TaskOf(p))]
                  /\ Goto(p, "upFile")
             ELSE UploadFallback(p)
          /\ UNCHANGED storage
       \/ /\ pc[p] = "upFile"              \* for (const fileName of files): stat, readFile
          /\ IF loc[p].files = {}
             THEN UploadReturns(p, ArtifactUrl(TaskOf(p)))
             ELSE LET f == NextSorted(loc[p].files)
                  IN  IF dirs[TaskOf(p)].files[f] # NoFile
                      THEN /\ loc' = [loc EXCEPT ![p].files = @ \ {f},
                                                 ![p].fileName = f,
                                                 ![p].fileBuffer = dirs[TaskOf(p)].files[f]]
                           /\ Goto(p, "upCreateObject")
                      ELSE UploadFallback(p)
          /\ UNCHANGED storage
       \/ /\ pc[p] = "upCreateObject"      \* createObjectTx.broadcast
          /\ \/ /\ storage[TaskOf(p)][loc[p].fileName] = NoFile
                /\ storage' = [storage EXCEPT ![TaskOf(p)][loc[p].fileName] = Unsealed]
                /\ Goto(p, "upUploadObject")
                /\ UNCHANGED loc
             \/ /\ UploadFallback(p)       \* code !== 0, or the call throws
                /\ UNCHANGED storage
       \/ /\ pc[p] = "upUploadObject"      \* client.object.uploadObject
          /\ \/ /\ storage' = [storage EXCEPT ![TaskOf(p)][loc[p].fileName] =
                                                 loc[p].fileBuffer]
                /\ Goto(p, "upFile")
                /\ UNCHANGED loc
             \/ /\ UploadFallback(p)
                /\ UNCHANGED storage
    /\ UNCHANGED <<ledger, now, result, dirs, cycles, configured, bench, hash, more>>

hashArtifactFolder(p) ==
    /\ \/ /\ pc[p] = "hashReaddir"         \* await fs.readdir(folderPath); files.sort()
          /\ IF dirs[TaskOf(p)].exists
             THEN /\ loc' = [loc EXCEPT ![p].files = Readdir(TaskOf(p)),
                                        ![p].combinedHash = <<>>]
                  /\ Goto(p, "hashFile")
             ELSE Throw(p, "ENOENT")
       \/ /\ pc[p] = "hashFile"            \* for (const file of sortedFiles): stat, readFile
          /\ IF loc[p].files = {}
             THEN /\ loc' = [loc EXCEPT ![p].artifactHash =
                                            keccak256(Concat(loc[p].combinedHash)),
                                        ![p].combinedHash = <<>>]
                  /\ Goto(p, "readResult")
             ELSE LET f == NextSorted(loc[p].files)
                  IN  IF dirs[TaskOf(p)].files[f] # NoFile
                      THEN /\ loc' = [loc EXCEPT
                                 ![p].files = @ \ {f},
                                 ![p].combinedHash =
                                     Append(@, keccak256(dirs[TaskOf(p)].files[f]))]
                           /\ Goto(p, "hashFile")
                      ELSE Throw(p, "ENOENT")
    /\ UNCHANGED <<ledger, now, result, dirs, storage, cycles, configured, bench, hash, more>>

\* resultHash = ethers.keccak256(await fs.readFile(resultPath))
readResultJson(p) ==
    /\ pc[p] = "readResult"
    /\ IF dirs[TaskOf(p)].files[ResultJson] # NoFile
       THEN /\ loc' = [loc EXCEPT ![p].resultHash =
                          keccak256(dirs[TaskOf(p)].files[ResultJson])]
            /\ Goto(p, "createReceipt")
       ELSE Throw(p, "ENOENT")
    /\ UNCHANGED <<ledger, now, result, dirs, storage, cycles, configured, bench, hash, more>>

createReceipt(p) ==
    /\ pc[p] = "createReceipt"
    /\ WriteFile(p, ReceiptJson, ReceiptContent(loc[p].cycle), "submitReceipt")
    /\ UNCHANGED <<ledger, now, result, storage, cycles, configured, bench, hash, more>>

\* await submitReceipt(taskId, artifactHash, resultHash); res.json({success: true, ...})
SubmitReceiptOnChain(p) ==
    /\ pc[p] = "submitReceipt"
    /\ \/ /\ submitReceipt(Wallet, TaskOf(p), loc[p].artifactHash, loc[p].resultHash)
          /\ IF result'.err = "ok"
             THEN /\ Goto(p, "done")
                  /\ loc' = [loc EXCEPT ![p] = Responded(p,
                                [status |-> 200, error |-> "",
                                 artifactHash |-> loc[p].artifactHash,
                                 resultHash |-> loc[p].resultHash])]
             ELSE Throw(p, result'.err)
       \/ \* the transaction is not sent or not confirmed
          /\ Throw(p, "transaction failed")
          /\ UNCHANGED <<ledger, now, result>>
    /\ UNCHANGED <<dirs, storage, cycles, configured, bench, hash, more>>

Init == InitLedger /\ InitBackend /\ InitHash /\ InitMore /\ configured = TRUE

Next == CallCreateTask \/ CallSubmitReceipt

Spec == Init /\ [][Next]_vars

InitCycle == InitLedger /\ InitBackend /\ InitHash /\ InitMore /\ configured \in BOOLEAN

NextCycle ==
    \/ PostCreate
    \/ \E p \in Reqs :
          \/ Execute(p)
          \/ runBenchmark(p)
          \/ createArtifactFolder(p)
          \/ uploadToGreenfield(p)
          \/ hashArtifactFolder(p)
          \/ readResultJson(p)
          \/ createReceipt(p)
          \/ SubmitReceiptOnChain(p)

SpecCycle == InitCycle /\ [][NextCycle]_vars

\* the digests of the other operator's own run
OperatorArtifactHash == 1
OperatorResultHash == 2

\* Another operator, with an account of its own, submits its receipt for a task
\* the backend may be working on. A submission the contract rejects changes
\* nothing the backend can see, so the operator is taken to send the one that
\* is accepted.
OperatorSubmits ==
    /\ \E operator \in Callers \ {Wallet}, taskId \in ExecTaskIds :
          /\ submitReceiptRevert(taskId, OperatorArtifactHash, OperatorResultHash) = "ok"
          /\ submitReceipt(operator, taskId, OperatorArtifactHash, OperatorResultHash)
    /\ UNCHANGED backend

NextRace == NextCycle \/ OperatorSubmits

SpecRace == InitCycle /\ [][NextRace]_vars

(* ======================= runBenchmark: the disk phase ================= *)
InFlight(p) == run[p].at \notin {"idle", "returned", "thrown"}
RunAt(p, label) == run' = [run EXCEPT ![p].at = label]
\* an fs call of diskTest rejects: runBenchmark rejects with it
RunThrows(p, message) ==
    /\ run' = [run EXCEPT ![p].at = "thrown", ![p].error = message]
    /\ UNCHANGED scratch

\* runBenchmark(config) is called: cpuTest and memoryTest run to completion
\* without yielding, diskTest runs up to its first await
StartBenchmark(p) ==
    /\ ~InFlight(p)
    \* requests in flight are interchangeable: a new one takes the first free place
    /\ \A q \in Reqs : q < p => InFlight(q)
    /\ cycles < MaxCycles
    /\ cycles' = cycles + 1
    /\ \E sizeMB \in DiskSizes :
          \* cpuResult = cpuTest(...); memoryResult = memoryTest(...); diskTest(...)
          run' = [run EXCEPT ![p] = [NoRun EXCEPT !.at = "ensureDir", !.sizeMB = sizeMB,
                                                  !.phases = <<"cpu", "memory">>]]
    /\ UNCHANGED <<ledger, now, result, pc, loc, dirs, storage, configured, scratch, hash, more>>

diskTest(p) ==
    LET d == testDir(p)
    IN  /\ \/ /\ run[p].at = "ensureDir"        \* await fs.ensureDir(testDir)
              /\ scratch' = [scratch EXCEPT ![d].exists = TRUE]
              /\ RunAt(p, IF run[p].sizeMB = 0 THEN "readFile" ELSE "appendFile")
           \/ /\ run[p].at = "appendFile"       \* await fs.appendFile(testFile, testData)
              /\ \/ IF scratch[d].exists
                    THEN /\ scratch' = [scratch EXCEPT ![d].testFile = @ + 1]
                         /\ run' = [run EXCEPT
                                ![p].i = @ + 1,
                                ![p].at = IF run[p].i + 1 < run[p].sizeMB
                                          THEN "appendFile" ELSE "readFile"]
                    ELSE RunThrows(p, "ENOENT")
                 \/ RunThrows(p, "ENOSPC")
           \/ /\ run[p].at = "readFile"         \* readData = await fs.readFile(testFile)
              /\ IF scratch[d].testFile # 0
                 THEN /\ run' = [run EXCEPT ![p].bytesWritten = scratch[d].testFile,
                                            ![p].at = "remove"]
                      /\ UNCHANGED scratch
                 ELSE RunThrows(p, "ENOENT")
           \/ /\ run[p].at = "remove"           \* await fs.remove(testDir); return {...}
              /\ scratch' = [scratch EXCEPT ![d] = NoScratch]
              /\ run' = [run EXCEPT ![p].at = "returned", ![p].phases = Append(@, "disk")]
        /\ UNCHANGED <<ledger, now, result, pc, loc, dirs, storage, cycles, configured, hash, more>>

NextBench == \E p \in Reqs : StartBenchmark(p) \/ diskTest(p)

SpecBench == Init /\ [][NextBench]_vars

(* ============== hashArtifactFolder, as a function of a folder ========== *)
\* s < t as JavaScript compares strings: code unit by code unit, a proper
\* prefix first
RECURSIVE LexLess(_, _)
LexLess(s, t) ==
    IF t = <<>> THEN FALSE
    ELSE IF s = <<>> THEN TRUE
    ELSE IF Head(s) # Head(t) THEN Head(s) < Head(t)
    ELSE LexLess(Tail(s), Tail(t))

\* x put into its place in an ascending array
RECURSIVE Insert(_, _)
Insert(x, sorted) ==
    IF sorted = <<>> THEN <<x>>
    ELSE IF LexLess(x, Head(sorted)) THEN <<x>> \o sorted
    ELSE <<Head(sorted)>> \o Insert(x, Tail(sorted))

\* the listing as readdir returned it
sort_ListingOrder(files) == files

\* files.sort(): ascending, by the default string comparison
RECURSIVE sort(_)
sort(files) ==
    IF files = <<>> THEN <<>> ELSE Insert(Head(files), sort(Tail(files)))

\* fs.readdir(folderPath): the names of the entries, each once, in some order
Entries(f) == {n \in Names : f[n] # NoEntry}
Listings(f) ==
    {l \in [1..Cardinality(Entries(f)) -> Entries(f)] :
        \A i, j \in DOMAIN l : l[i] = l[j] => i = j}

\* stats.isFile()
isFile(entry) == entry \in FileBytes

\* the function is called, up to its first await
HashCall ==
    /\ hashing.at \in {"idle", "returned", "thrown"}
    /\ hashing.calls < MaxHashCalls
    /\ hashing' = [NoHashing EXCEPT !.at = "readdir", !.calls = hashing.calls + 1,
                                    !.returned = hashing.returned]
    /\ UNCHANGED <<folder, ledger, now, result, pc, loc, dirs, storage, cycles,
                   configured, bench, more>>

\* if (combinedHash) return keccak256('0x' + combinedHash); return keccak256('0x')
HashReturn(listing, combinedHash) ==
    hashing' = [hashing EXCEPT
        !.at = "readResult",
        !.listing = listing,
        !.combinedHash = combinedHash,
        !.artifactHash = IF combinedHash # <<>>
                         THEN keccak256(Concat(combinedHash))
                         ELSE keccak256(0)]

\* files = await fs.readdir(folderPath); sortedFiles = files.sort()
HashReaddir ==
    /\ hashing.at = "readdir"
    /\ \E listing \in Listings(folder) :
          IF listing = <<>>
          THEN HashReturn(listing, <<>>)
          ELSE hashing' = [hashing EXCEPT !.at = "stat", !.listing = listing,
                                          !.sortedFiles = sort(listing), !.k = 1]
    /\ UNCHANGED <<folder, ledger, now, result, pc, loc, dirs, storage, cycles,
                   configured, bench, more>>

\* one turn of the loop: stat, and for a regular file readFile and keccak256
HashEntry ==
    /\ hashing.at = "stat"
    /\ LET file == hashing.sortedFiles[hashing.k]
           combinedHash == IF isFile(folder[file])
                           THEN Append(hashing.combinedHash, keccak256(folder[file]))
                           ELSE hashing.combinedHash
       IN  IF hashing.k < Len(hashing.sortedFiles)
           THEN hashing' = [hashing EXCEPT !.k = @ + 1, !.combinedHash = combinedHash]
           ELSE HashReturn(hashing.listing, combinedHash)
    /\ UNCHANGED <<folder, ledger, now, result, pc, loc, dirs, storage, cycles,
                   configured, bench, more>>

\* processArtifacts: resultHash = keccak256(await fs.readFile(result.json))
HashResult ==
    /\ hashing.at = "readResult"
    /\ IF isFile(folder[resultJson])
       THEN hashing' = [hashing EXCEPT
                !.at = "returned",
                !.returned = Append(@, [listing |-> hashing.listing,
                                        artifactHash |-> hashing.artifactHash,
                                        resultHash |-> keccak256(folder[resultJson])])]
       ELSE hashing' = [hashing EXCEPT !.at = "thrown"]
    /\ UNCHANGED <<folder, ledger, now, result, pc, loc, dirs, storage, cycles,
                   configured, bench, more>>

InitFolder ==
    /\ InitLedger /\ InitBackend /\ InitMore /\ configured = TRUE
    /\ folder \in Folders
    /\ hashing = NoHashing

NextHash == HashCall \/ HashReaddir \/ HashEntry \/ HashResult

SpecHash == InitFolder /\ [][NextHash]_vars

(* ================== hashJSON, as a function of an object =============== *)
\* Property names, written as one code unit each, numbered in the order the
\* default sort() puts them: "config" < "cpuDurationMs" < "createdAt" <
\* "diskSizeMB" < "duration" < "memorySizeMB" < "type"
config == <<1>>
cpuDurationMs == <<2>>
createdAt == <<3>>
diskSizeMB == <<4>>
duration == <<5>>
memorySizeMB == <<6>>
type == <<7>>

\* A JavaScript value: a number or string, or an object, which is the
\* sequence of its own properties in insertion order.
Scalar(n) == [isObject |-> FALSE, scalar |-> n, object |-> <<>>]
Object(props) == [isObject |-> TRUE, scalar |-> 0, object |-> props]
Property(key, value) == [key |-> key, value |-> value]

\* Object.keys(obj)
Object_keys(obj) == [i \in 1..Len(obj) |-> obj[i].key]
HasOwn(obj, key) == \E i \in 1..Len(obj) : obj[i].key = key
Get(obj, key) == obj[CHOOSE i \in 1..Len(obj) : obj[i].key = key].value

\* the replacer as the caller might have passed it, in insertion order
PropertyList_InsertionOrder(obj) == Object_keys(obj)

\* the replacer hashJSON passes: Object.keys(obj).sort()
PropertyList(obj) == sort(Object_keys(obj))

\* The characters JSON.stringify writes, token by token (the commas and
\* colons between them follow from the tokens).
Open == [t |-> "{", v |-> <<>>]
Close == [t |-> "}", v |-> <<>>]
Name(key) == [t |-> "name", v |-> key]
Literal(n) == [t |-> "literal", v |-> <<n>>]

\* JSON.stringify(value, K) with an array K as replacer: of every object, at
\* every depth, the properties named in K are written, in the order of K
RECURSIVE stringify(_, _)
RECURSIVE Members(_, _, _)
Members(obj, rest, K) ==
    IF rest = <<>> THEN <<>>
    ELSE (IF HasOwn(obj, Head(rest))
          THEN <<Name(Head(rest))>> \o stringify(Get(obj, Head(rest)), K)
          ELSE <<>>) \o Members(obj, Tail(rest), K)
stringify(value, K) ==
    IF value.isObject
    THEN <<Open>> \o Members(value.object, K, K) \o <<Close>>
    ELSE <<Literal(value.scalar)>>

\* ethers.keccak256(ethers.toUtf8Bytes(str)): no two strings collide
keccak256Utf8(str) == [preimage |-> str]

hashJSON(obj) ==
    LET sortedJSON == stringify(Object(obj), PropertyList(obj))
    IN  [sortedJSON |-> sortedJSON, hash |-> keccak256Utf8(sortedJSON)]

\* the values a field of a request may take; durations are whole multiples
\* of 3 seconds
Values == 1..NumValues
Durations == {3 * v : v \in Values}
\* POST /tasks/create: the taskSpec built from the request and the clock
TaskSpecOf(ty, dur, mem, disk, at) ==
    << Property(type, Scalar(ty)),
       Property(duration, Scalar(dur)),
       Property(config, Object(<< Property(cpuDurationMs, Scalar((dur \div 3) * 1000)),
                                  Property(memorySizeMB, Scalar(mem)),
                                  Property(diskSizeMB, Scalar(disk)) >>)),
       Property(createdAt, Scalar(at)) >>
TaskSpecs ==
    {TaskSpecOf(ty, dur, mem, disk, at) :
        ty \in Values, dur \in Durations, mem \in Values, disk \in Values, at \in Values}
\* the type a request has when it names none
SERVER_BENCHMARK == 1
\* the same properties, inserted in another order
Reordered(obj) ==
    {[i \in 1..Len(obj) |-> obj[order[i]]] :
        order \in {o \in [1..Len(obj) -> 1..Len(obj)] :
                       \A i, j \in 1..Len(obj) : o[i] = o[j] => i = j}}

\* hashJSON is applied to the first specification, then to the second
HashJson(w) ==
    /\ specHashes[w] = NoSpecHash
    /\ \A v \in Which : v < w => specHashes[v] # NoSpecHash
    /\ specHashes' = [specHashes EXCEPT ![w] = <<hashJSON(taskSpecs[w])>>]
    /\ UNCHANGED <<ledger, now, result, pc, loc, dirs, storage, cycles, configured,
                   bench, hash, taskSpecs, http, clients, logger, others>>

InitSpecs ==
    /\ InitLedger /\ InitBackend /\ InitHash /\ InitHttp /\ InitClients /\ InitLogger
    /\ InitOthers
    /\ configured = TRUE
    \* the first is of the default type, the second is any specification
    /\ \E a \in {t \in TaskSpecs : Get(t, type) = Scalar(SERVER_BENCHMARK)}, b \in TaskSpecs :
          \E c \in Reordered(b) : taskSpecs = [w \in Which |-> IF w = 1 THEN a ELSE c]
    /\ specHashes = [w \in Which |-> NoSpecHash]

NextJson == \E w \in Which : HashJson(w)

SpecJson == InitSpecs /\ [][NextJson]_vars

(* ======================= GET /tasks/<segment> ========================= *)
\* the decimal numerals of the task ids, and other path segments a client sends
Numerals == <<"0", "1", "2", "3", "4", "5">>
Segments == {Numerals[t + 1] : t \in TaskIds} \cup {"-1", "1x", "health"}
\* parseInt's answer for a string that does not start with a number
NaN == -999
isNaN(n) == n = NaN
\* parseInt(string): the number its longest numeric prefix is a numeral of
parseInt(string) ==
    IF \E i \in DOMAIN Numerals : Numerals[i] = string
    THEN (CHOOSE i \in DOMAIN Numerals : Numerals[i] = string) - 1
    ELSE IF string = "-1" THEN -1
    ELSE IF string = "1x" THEN 1
    ELSE NaN

\* router.get(path, handler), in the order of registration
GetRoutes == << "/:taskId", "/health" >>
\* a path with a parameter matches every segment, a literal path only itself
Matches(path, segment) == path = "/:taskId" \/ path = "/" \o segment
\* express runs the first route that matches; no handler here calls next()
Dispatch(segment) ==
    GetRoutes[CHOOSE i \in DOMAIN GetRoutes :
                /\ Matches(GetRoutes[i], segment)
                /\ \A j \in DOMAIN GetRoutes : j < i => ~Matches(GetRoutes[j], segment)]

\* the client's getTask: the public getter tasks(taskId)
getTask(taskId) ==
    [requester |-> tasks[taskId].requester, specHash |-> tasks[taskId].specHash,
     createdAt |-> tasks[taskId].createdAt]
\* getReceipt: null when the slot is unset
getReceipt(taskId) ==
    IF receipts[taskId].operator = ZeroAddress THEN <<>> ELSE <<receipts[taskId]>>
StatusOf_AlwaysPending(receipt) == "PENDING"
\* const status = receipt ? 'COMPLETED' : 'PENDING'
StatusOf(receipt) == IF receipt # <<>> THEN "COMPLETED" ELSE "PENDING"
TaskNotFound_Never(task) == FALSE
\* task.requester === '0x0000000000000000000000000000000000000000'
TaskNotFound(task) == task.requester = ZeroAddress

\* res.status(code).json(...): what a GET request is answered
Answer(segment, route, code, success, error, task, status, receipt) ==
    [segment |-> segment, route |-> route, code |-> code, success |-> success,
     error |-> error, task |-> task, status |-> status, receipt |-> receipt]
Respond(p, answer) ==
    /\ answers' = Append(answers, answer)
    /\ gets' = [gets EXCEPT ![p] = NoGet]
GetInFlight(p) == gets[p].at # "idle"

\* a GET request arrives and its handler runs up to its first await
GetReceived(p) ==
    /\ ~GetInFlight(p)
    \* requests in flight are interchangeable: a new one takes the first free place
    /\ \A q \in Reqs : q < p => GetInFlight(q)
    /\ Len(answers) + Cardinality({q \in Reqs : GetInFlight(q)}) < MaxGets
    /\ \E segment \in Segments :
          LET route == Dispatch(segment)
              taskId == parseInt(segment)
          IN  IF route = "/health"
              THEN Respond(p, Answer(segment, route, 200, TRUE, "", <<>>, "healthy", <<>>))
              ELSE IF isNaN(taskId) \/ taskId < 0
              THEN Respond(p, Answer(segment, route, 400, FALSE, "Invalid task ID",
                                     <<>>, "", <<>>))
              ELSE /\ gets' = [gets EXCEPT ![p] = [NoGet EXCEPT !.at = "getTask",
                                        !.segment = segment, !.taskId = taskId]]
                   /\ UNCHANGED answers
    /\ UNCHANGED <<ledger, now, result, pc, loc, dirs, storage, cycles, configured,
                   bench, hash, json, clients, logger, others>>

\* const task = await getTask(taskId), and the check that follows
GetTaskRead(p) ==
    /\ gets[p].at = "getTask"
    /\ LET task == getTask(gets[p].taskId)
       IN  IF TaskNotFound(task)
           THEN Respond(p, Answer(gets[p].segment, "/:taskId", 404, FALSE,
                                  "Task not found", <<>>, "", <<>>))
           ELSE /\ gets' = [gets EXCEPT ![p].at = "getReceipt",
                                        ![p].task = Task(task.requester, task.specHash,
                                                         task.createdAt)]
                /\ UNCHANGED answers
    /\ UNCHANGED <<ledger, now, result, pc, loc, dirs, storage, cycles, configured,
                   bench, hash, json, clients, logger, others>>

\* const receipt = await getReceipt(taskId), and the response
GetReceiptRead(p) ==
    /\ gets[p].at = "getReceipt"
    /\ LET receipt == getReceipt(gets[p].taskId)
       IN  Respond(p, Answer(gets[p].segment, "/:taskId", 200, TRUE, "",
                             <<[taskId |-> gets[p].taskId, task |-> gets[p].task]>>,
                             StatusOf(receipt), receipt))
    /\ UNCHANGED <<ledger, now, result, pc, loc, dirs, storage, cycles, configured,
                   bench, hash, json, clients, logger, others>>

NextGet ==
    \/ PostCreate
    \/ OperatorSubmits
    \/ \E p \in Reqs : GetReceived(p) \/ GetTaskRead(p) \/ GetReceiptRead(p)

SpecGet == Init /\ [][NextGet]_vars

(* ================= the client's createTask, per account ================ *)
CallThrows(c, message) ==
    clients' = [clients EXCEPT ![c].at = "thrown", ![c].error = message]

\* the id of the task the ledger created last
receiptTaskId_LatestOnLedger(logs) == nextTaskId - 1

\* receipt.logs.find(log => parseLog(log).name === 'TaskCreated'), and the
\* taskId argument of that event; NoValue when there is no such log
receiptTaskId(logs) ==
    IF \E i \in DOMAIN logs : logs[i].name = "TaskCreated"
    THEN logs[CHOOSE i \in DOMAIN logs :
                /\ logs[i].name = "TaskCreated"
                /\ \A j \in DOMAIN logs : j < i => logs[j].name # "TaskCreated"].taskId
    ELSE NoValue

\* tx = await contract.createTask(specHash): the call is simulated, and a call
\* that would revert is rejected without a transaction; otherwise the
\* transaction is broadcast
ClientSends(c) ==
    /\ clients[c].at \in {"idle", "returned", "thrown"}
    /\ \E specHash \in Digests :
          IF createTaskRevert(specHash) # "ok"
          THEN clients' = [clients EXCEPT ![c] = [NoCall EXCEPT !.at = "thrown",
                              !.specHash = specHash, !.error = createTaskRevert(specHash)]]
          ELSE clients' = [clients EXCEPT ![c] = [NoCall EXCEPT !.at = "sent",
                              !.specHash = specHash]]
    /\ UNCHANGED <<ledger, now, result, pc, loc, dirs, storage, cycles, configured,
                   bench, hash, json, http, logger, others>>

\* the transaction of account c is mined, in a block of its own
ClientTxMined(c) ==
    /\ clients[c].at = "sent"
    /\ createTask(c, clients[c].specHash)
    /\ clients' = [clients EXCEPT
            ![c].at = "mined",
            ![c].blockNumber = now,
            ![c].logs = SubSeq(events', Len(events) + 1, Len(events'))]
    /\ UNCHANGED <<pc, loc, dirs, storage, cycles, configured,
                   bench, hash, json, http, logger, others>>

\* receipt = await tx.wait() resolves; the event is parsed and the id returned
ClientReturns(c) ==
    /\ clients[c].at = "mined"
    /\ LET taskId == receiptTaskId(clients[c].logs)
       IN  IF taskId = NoValue
           THEN CallThrows(c, "TaskCreated event not found in transaction receipt")
           ELSE clients' = [clients EXCEPT ![c].at = "returned", ![c].taskId = taskId]
    /\ UNCHANGED <<ledger, now, result, pc, loc, dirs, storage, cycles, configured,
                   bench, hash, json, http, logger, others>>

NextCreate == \E c \in Callers : ClientSends(c) \/ ClientTxMined(c) \/ ClientReturns(c)

SpecCreate == Init /\ [][NextCreate]_vars

(* ================== the lines of a cycle's execution.log =============== *)
\* a line a phase of the request numbered id writes: through logger.info or
\* console.log
Line(id, phase, text, n) == [by |-> id, phase |-> phase, text |-> text, n |-> n]
\* the progress lines 1..n of a phase
Progress(id, phase, n) == [k \in 1..n |-> Line(id, phase, "progress", k)]
\* what a run announces through logger.info up to the first await of diskTest
Announced(id) ==
    << Line(id, "cpu", "started", 0), Line(id, "cpu", "completed", 0),
       Line(id, "memory", "started", 0), Line(id, "memory", "completed", 0),
       Line(id, "disk", "started", 0) >>

\* logger.info(line) with the chain of wrappers installed: every wrapper of the
\* chain pushes the line to the logs of its request
RECURSIVE InfoAll(_, _, _, _)
InfoAll(logs, id, chain, lines) ==
    IF lines = <<>> THEN logs
    ELSE InfoAll([q \in Reqs |-> IF \E i \in DOMAIN chain : chain[i] = id[q]
                                 THEN Append(logs[q], Head(lines)) ELSE logs[q]],
                 id, chain, Tail(lines))

\* POST /tasks/execute/:taskId is received: logger.info is wrapped, and
\* runBenchmark runs cpuTest and memoryTest and diskTest up to its first await.
\* The phases announce their start and their end through logger.info and
\* write their progress lines with console.log.
LogExecute(p) ==
    /\ logger.at[p] = "idle"
    \* requests in flight are interchangeable: a new one takes the first free place
    /\ \A q \in Reqs : q < p => logger.at[q] # "idle"
    /\ logger.received < MaxLogged
    /\ \E cpu \in 0..MaxProgress, memory \in 0..MaxProgress :
          LET id == [logger.id EXCEPT ![p] = logger.received + 1]
              chain == Append(logger.info, id[p])
              lines == Announced(id[p])
          IN  logger' = [logger EXCEPT
                  !.info = chain,
                  !.received = @ + 1,
                  !.originalLog[p] = logger.info,
                  !.id = id,
                  !.logs = InfoAll([logger.logs EXCEPT ![p] = <<>>], id, chain, lines),
                  !.emitted[p] = Progress(id[p], "cpu", cpu) \o Progress(id[p], "memory", memory),
                  !.executionLog[p] = <<>>,
                  !.at[p] = "disk"]
    /\ UNCHANGED <<ledger, now, result, pc, loc, dirs, storage, cycles, configured,
                   bench, hash, json, http, clients, others>>

\* the awaits of diskTest resolve: its progress lines are written with
\* console.log, its end is announced through logger.info
LogDisk(p) ==
    /\ logger.at[p] = "disk"
    /\ \E disk \in 0..MaxProgress :
          logger' = [logger EXCEPT
              !.logs = InfoAll(logger.logs, logger.id, logger.info,
                               <<Line(logger.id[p], "disk", "completed", 0)>>),
              !.emitted[p] = @ \o Progress(logger.id[p], "disk", disk),
              !.at[p] = "writeLog"]
    /\ UNCHANGED <<ledger, now, result, pc, loc, dirs, storage, cycles, configured,
                   bench, hash, json, http, clients, others>>

\* createArtifactFolder: logContent = logs.join('\n') + '\n' is written to
\* execution.log
LogWritten(p) ==
    /\ logger.at[p] = "writeLog"
    /\ logger' = [logger EXCEPT !.executionLog[p] = logger.logs[p], !.at[p] = "restore"]
    /\ UNCHANGED <<ledger, now, result, pc, loc, dirs, storage, cycles, configured,
                   bench, hash, json, http, clients, others>>

\* processArtifacts has returned: logger.info = originalLog
LogRestored(p) ==
    /\ logger.at[p] = "restore"
    /\ logger' = [logger EXCEPT !.info = logger.originalLog[p], !.at[p] = "idle"]
    /\ UNCHANGED <<ledger, now, result, pc, loc, dirs, storage, cycles, configured,
                   bench, hash, json, http, clients, others>>

\* runBenchmark or processArtifacts rejects: the handler's catch answers 500;
\* the assignment logger.info = originalLog is not on this path
LogThrows(p) ==
    /\ logger.at[p] \in {"disk", "writeLog"}
    /\ logger' = [logger EXCEPT !.at[p] = "idle"]
    /\ UNCHANGED <<ledger, now, result, pc, loc, dirs, storage, cycles, configured,
                   bench, hash, json, http, clients, others>>

NextLog ==
    \E p \in Reqs :
        LogExecute(p) \/ LogDisk(p) \/ LogWritten(p) \/ LogRestored(p) \/ LogThrows(p)

SpecLog == Init /\ [][NextLog]_vars

(* ===================== the CPU phase of the benchmark ================= *)

\* for (let i = 5; i * i <= n; i += 6) of isPrime, from i on
RECURSIVE isPrimeFrom(_, _)
isPrimeFrom(n, i) ==
    IF i * i > n THEN TRUE
    ELSE IF n % i = 0 \/ n % (i + 2) = 0 THEN FALSE
    ELSE isPrimeFrom(n, i + 6)

RECURSIVE isPrimeFrom_OnlyI(_, _)
isPrimeFrom_OnlyI(n, i) ==
    IF i * i > n THEN TRUE
    ELSE IF n % i = 0 THEN FALSE
    ELSE isPrimeFrom_OnlyI(n, i + 6)

isPrime_OnlyI(n) ==
    IF n <= 1 THEN FALSE
    ELSE IF n <= 3 THEN TRUE
    ELSE IF n % 2 = 0 \/ n % 3 = 0 THEN FALSE
    ELSE isPrimeFrom_OnlyI(n, 5)

\* function isPrime(n) of cpuTest
isPrime(n) ==
    IF n <= 1 THEN FALSE
    ELSE IF n <= 3 THEN TRUE
    ELSE IF n % 2 = 0 \/ n % 3 = 0 THEN FALSE
    ELSE isPrimeFrom(n, 5)

\* cpuTest is called: iterations = 0, primeCount = 0, num = 2
CpuCalled ==
    /\ cpuLoop.at = "idle"
    /\ cpuLoop' = [cpuLoop EXCEPT !.at = "loop", !.num = 2, !.iterations = 0,
                                  !.primeCount = 0]
    /\ UNCHANGED <<ledger, now, result, pc, loc, dirs, storage, cycles, configured,
                   bench, hash, json, http, clients, logger, web>>

\* Date.now() - startTime < durationMs: one pass of the while loop
CpuIterates ==
    /\ cpuLoop.at = "loop"
    /\ cpuLoop.num <= MaxNum
    /\ cpuLoop' = [cpuLoop EXCEPT
          !.primeCount = IF isPrime(cpuLoop.num) THEN @ + 1 ELSE @,
          !.num = @ + 1,
          !.iterations = @ + 1]
    /\ UNCHANGED <<ledger, now, result, pc, loc, dirs, storage, cycles, configured,
                   bench, hash, json, http, clients, logger, web>>

\* the time is up: return {iterations, primesFound: primeCount, ...}
CpuReturns ==
    /\ cpuLoop.at = "loop"
    /\ cpuLoop' = [cpuLoop EXCEPT
          !.at = "returned",
          !.returned = [iterations |-> cpuLoop.iterations,
                        primesFound |-> cpuLoop.primeCount]]
    /\ UNCHANGED <<ledger, now, result, pc, loc, dirs, storage, cycles, configured,
                   bench, hash, json, http, clients, logger, web>>

NextCpu == CpuCalled \/ CpuIterates \/ CpuReturns

SpecCpu == Init /\ [][NextCpu]_vars

(* ============================ the web client ========================== *)

\* Number.prototype.toString: the decimal digits of a task id below ten
toString(n) == <<n>>
\* a receipt transaction hash, as the string the backend sends
TxHashes == {<<"0x", h>> : h \in 1..NumTxHashes}

\* onClick of the button, which is disabled while isProcessing: the part of
\* handleCreateTask before its first await
WebClick ==
    /\ ~web.isProcessing
    /\ web.flows < MaxFlows
    /\ web' = [web EXCEPT !.isProcessing = TRUE, !.taskStatus = "created",
                          !.receiptTxHash = Undefined, !.artifactUrl = Undefined,
                          !.at = "createTask", !.createResponse = Undefined,
                          !.executeResponse = Undefined, !.flows = @ + 1]
    /\ UNCHANGED <<ledger, now, result, pc, loc, dirs, storage, cycles, configured,
                   bench, hash, json, http, clients, logger, cpuLoop>>

\* catch (error) and finally of handleCreateTask
WebCatch ==
    [web EXCEPT !.toasts = Append(@, "Error"), !.taskStatus = "idle",
                !.taskId = Undefined, !.receiptTxHash = Undefined,
                !.artifactUrl = Undefined, !.isProcessing = FALSE, !.at = "idle"]

\* await createTask(30) resolves with the response of POST /tasks/create
WebCreateResolves ==
    /\ web.at = "createTask"
    /\ \E taskId \in 0..(MaxTasks - 1) :
          web' = [web EXCEPT !.createResponse = <<taskId>>,
                             !.taskId = toString(taskId),
                             !.toasts = Append(@, "Task Created"),
                             !.taskStatus = "running", !.at = "executeTask"]
    /\ UNCHANGED <<ledger, now, result, pc, loc, dirs, storage, cycles, configured,
                   bench, hash, json, http, clients, logger, cpuLoop>>

\* await createTask(30) rejects: fetch failed, or the response was not ok
WebCreateRejects ==
    /\ web.at = "createTask"
    /\ web' = WebCatch
    /\ UNCHANGED <<ledger, now, result, pc, loc, dirs, storage, cycles, configured,
                   bench, hash, json, http, clients, logger, cpuLoop>>

\* await executeTask(createResponse.taskId) resolves with the response of
\* POST /tasks/execute/:taskId
WebExecuteResolves ==
    /\ web.at = "executeTask"
    /\ \E receiptTxHash \in TxHashes :
          web' = [web EXCEPT
              !.executeResponse = <<receiptTxHash, ArtifactUrl(web.createResponse[1])>>,
              !.receiptTxHash = receiptTxHash,
              !.artifactUrl = ArtifactUrl(web.createResponse[1]),
              !.toasts = Append(@, "Task Completed"),
              !.taskStatus = "completed", !.isProcessing = FALSE, !.at = "idle"]
    /\ UNCHANGED <<ledger, now, result, pc, loc, dirs, storage, cycles, configured,
                   bench, hash, json, http, clients, logger, cpuLoop>>

\* await executeTask(...) rejects
WebExecuteRejects ==
    /\ web.at = "executeTask"
    /\ web' = WebCatch
    /\ UNCHANGED <<ledger, now, result, pc, loc, dirs, storage, cycles, configured,
                   bench, hash, json, http, clients, logger, cpuLoop>>

NextWeb ==
    \/ WebClick
    \/ WebCreateResolves
    \/ WebCreateRejects
    \/ WebExecuteResolves
    \/ WebExecuteRejects

SpecWeb == Init /\ [][NextWeb]_vars

(* ------------------------------ views --------------------------------- *)

(* ------------------- vocabulary of the ledger claims ------------------ *)
\* this step executes a transaction
IsCall == now' # now
IsSubmit(t) == IsCall /\ result'.op = "submitReceipt" /\ result'.taskId = t
IsCreate == IsCall /\ result'.op = "createTask"
TaskExists(t) == tasks[t].requester # ZeroAddress
HasReceipt(t) == receipts[t].operator # ZeroAddress
\* this step is the call submitReceipt(taskId, artifactHash, resultHash) / createTask(specHash)
\* of the sender named in its outcome
IsSubmitOf(t, artifactHash, resultHash) ==
    IsSubmit(t) /\ submitReceipt(result'.sender, t, artifactHash, resultHash)
IsCreateOf(specHash) == IsCreate /\ createTask(result'.sender, specHash)
\* the events of one kind, in emission order
EventsNamed(n) == SelectSeq(events, LAMBDA e : e.name = n)
ReceiptEvents(t) ==
    SelectSeq(events, LAMBDA e : e.name = "ReceiptSubmitted" /\ e.taskId = t)
WasCreated(t) == \E k \in 1..Len(events) :
    events[k].name = "TaskCreated" /\ events[k].taskId = t

\* C1: once a receipt is stored for a task, every later submitReceipt for that
\* task (any sender, any hashes) reverts with "Receipt already submitted" and
\* the stored Receipt stays what the first successful call wrote: operator =
\* its sender, the two hashes = its arguments, completedAt = its block time.
C1_DuplicateReceiptRejected ==
    [][\A t \in TaskIds :
          /\ HasReceipt(t) =>
                /\ receipts'[t] = receipts[t]
                /\ IsSubmit(t) => result'.err = "Receipt already submitted"
          /\ (~HasReceipt(t) /\ IsSubmit(t) /\ result'.err = "ok") =>
                \A artifactHash \in Digests, resultHash \in Digests :
                    IsSubmitOf(t, artifactHash, resultHash) =>
                        receipts'[t] = Receipt(result'.sender, artifactHash, resultHash, now)
      ]_vars

\* a second submission by the operator itself was rejected, the receipt is still there
C1_Witness ==
    /\ result.op = "submitReceipt"
    /\ result.err = "Receipt already submitted"
    /\ receipts[result.taskId].operator = result.sender
    /\ receipts[result.taskId].completedAt < now - 1

\* C2: of the valid submissions made for one existing task, in whatever order
\* the ledger executes them, exactly one succeeds: the one executed while the
\* task has no receipt; it is stored whole (no field of the stored Receipt
\* comes from another submission) and all the others revert with
\* "Receipt already submitted". At most one ReceiptSubmitted event per task.
C2_OneWinnerPerTask ==
    /\ [](\A t \in TaskIds :
            LET submitted == ReceiptEvents(t)
            IN  /\ Len(submitted) <= 1
                /\ HasReceipt(t) <=> Len(submitted) = 1
                /\ HasReceipt(t) =>
                      /\ receipts[t].operator = submitted[1].who
                      /\ receipts[t].artifactHash = submitted[1].artifactHash
                      /\ receipts[t].resultHash = submitted[1].resultHash)
    /\ [][\A t \in TaskIds :
            (/\ IsSubmit(t) /\ TaskExists(t)
             /\ ~result'.zeroArtifactHash /\ ~result'.zeroResultHash) =>
                IF HasReceipt(t)
                THEN result'.err = "Receipt already submitted" /\ UNCHANGED ledger
                ELSE /\ result'.err = "ok"
                     /\ \A artifactHash \in Digests, resultHash \in Digests :
                           IsSubmitOf(t, artifactHash, resultHash) =>
                              /\ receipts'[t] = Receipt(result'.sender, artifactHash,
                                                        resultHash, now)
                              /\ events' = Append(events,
                                    ReceiptSubmitted(t, result'.sender, artifactHash,
                                                     resultHash))
      ]_vars

\* another operator's valid submission lost the race
C2_Witness ==
    /\ result.op = "submitReceipt"
    /\ result.err = "Receipt already submitted"
    /\ ~result.zeroArtifactHash /\ ~result.zeroResultHash
    /\ receipts[result.taskId].operator # result.sender
    /\ Len(ReceiptEvents(result.taskId)) = 1

\* the result.json a verifier can download for the task: a sealed object
Retrievable(t) == storage[t][ResultJson] \notin {NoFile, Unsealed}

\* C3: for every taskId with a Receipt on the ledger, the content hash of the
\* result.json retrievable from storage for that taskId equals the ledger's
\* resultHash, after any sequence of execution cycles for the task, including
\* cycles whose upload or ledger submission failed.
C3_StoredResultMatchesLedger ==
    \A t \in TaskIds :
        (HasReceipt(t) /\ Retrievable(t)) =>
            keccak256(storage[t][ResultJson]) = receipts[t].resultHash

\* the ledger holds the hash of the result.json of the local folder, written by a
\* later cycle than the one whose result.json the bucket holds
C3_Witness ==
    \E t \in TaskIds :
        /\ HasReceipt(t) /\ Retrievable(t)
        /\ keccak256(storage[t][ResultJson]) # receipts[t].resultHash
        /\ keccak256(dirs[t].files[ResultJson]) = receipts[t].resultHash

\* C4: a Receipt is stored for an id only if a Task is stored for it, and a
\* submitReceipt for an id without a Task stores nothing.
C4_ReceiptNeedsTask ==
    /\ [](\A t \in TaskIds : HasReceipt(t) => TaskExists(t) /\ WasCreated(t))
    /\ [][\A t \in TaskIds :
            (IsSubmit(t) /\ ~TaskExists(t)) => receipts' = receipts /\ result'.err # "ok"
      ]_vars

\* a receipt is stored, and a submission for a missing task has just been refused
C4_Witness ==
    /\ result.op = "submitReceipt"
    /\ result.err = "Task does not exist"
    /\ \E t \in TaskIds : HasReceipt(t)

\* C5: a successful createTask(specHash) by sender returns an id whose Task
\* reads back with that specHash and that requester, and no later call (create
\* or submit, successful or not) changes what getTask returns for that id.
C5_CreateThenGet ==
    [][/\ (IsCreate /\ result'.err = "ok") =>
            \A specHash \in Digests, t \in TaskIds :
                (IsCreateOf(specHash) /\ t = result'.ret) =>
                    /\ specHash # ZeroHash
                    /\ getTask(t)' = Task(result'.sender, specHash, now)
       /\ \A t \in TaskIds : TaskExists(t) => getTask(t)' = getTask(t)
      ]_vars

\* the first task still reads back as created, after it got a receipt and a
\* second task was created by the other account
C5_Witness ==
    /\ nextTaskId = 2
    /\ result.op = "createTask" /\ result.err = "ok" /\ result.ret = 1
    /\ getTask(0).requester # getTask(1).requester
    /\ getTask(1).requester = result.sender
    /\ HasReceipt(0)

\* C6: createTask(0) reverts with "Spec hash cannot be zero" and changes
\* nothing: nextTaskId, tasks, receipts and the event log are as before.
C6_ZeroSpecHashRejected ==
    [][(IsCreate /\ result'.zeroSpecHash) =>
            /\ result'.err = "Spec hash cannot be zero"
            /\ result'.ret = NoValue
            /\ UNCHANGED ledger
      ]_vars

\* a zero specHash was refused on a ledger that already holds a task
C6_Witness ==
    /\ result.op = "createTask"
    /\ result.zeroSpecHash
    /\ result.err = "Spec hash cannot be zero"
    /\ nextTaskId > 0

\* C7: ids are handed out 0, 1, 2, ...: the k-th TaskCreated event carries id
\* k-1, a successful createTask returns the current nextTaskId and advances it
\* by one, a failing call of either kind leaves it alone, and a Task is stored
\* for id i exactly when i < nextTaskId.
C7_SequentialIds ==
    /\ [](/\ \A i \in TaskIds : TaskExists(i) <=> i < nextTaskId
          /\ LET created == EventsNamed("TaskCreated")
             IN  /\ Len(created) = nextTaskId
                 /\ \A k \in 1..Len(created) : created[k].taskId = k - 1)
    /\ [][/\ (IsCreate /\ result'.err = "ok") =>
               result'.ret = nextTaskId /\ nextTaskId' = nextTaskId + 1
          /\ (IsCall /\ result'.err # "ok") => nextTaskId' = nextTaskId
          /\ (IsCall /\ result'.op = "submitReceipt") => nextTaskId' = nextTaskId
      ]_vars

\* the second successful createTask, made after a failed one, returned id 1
C7_Witness ==
    /\ result.op = "createTask" /\ result.err = "ok" /\ result.ret = 1
    /\ now > 3
    /\ Len(events) = 2

\* C8: submitReceipt for an id no createTask has been given reverts with
\* "Task does not exist" whatever the sender and the hashes, and changes
\* nothing; the Task a later createTask stores under that id has no receipt.
C8_MissingTaskRejected ==
    [][/\ \A t \in TaskIds :
            (IsSubmit(t) /\ ~WasCreated(t)) =>
                /\ result'.err = "Task does not exist"
                /\ UNCHANGED ledger
       /\ (IsCreate /\ result'.err = "ok") => receipts'[result'.ret] = NoReceipt
      ]_vars

\* a valid-looking submission for the next id to be assigned was refused
C8_Witness ==
    /\ result.op = "submitReceipt"
    /\ result.err = "Task does not exist"
    /\ result.taskId = nextTaskId
    /\ nextTaskId > 0
    /\ ~result.zeroArtifactHash /\ ~result.zeroResultHash

\* C9: on an existing task without receipt, a submitReceipt with a zero
\* artifactHash or a zero resultHash reverts with the matching "... hash
\* cannot be zero" reason, stores nothing and emits nothing; the task is left
\* without receipt, and a submitReceipt with two non-zero hashes on such a task
\* succeeds.
C9_ZeroHashRejected ==
    [][\A t \in TaskIds :
          (IsSubmit(t) /\ TaskExists(t) /\ ~HasReceipt(t)) =>
              IF result'.zeroArtifactHash \/ result'.zeroResultHash
              THEN /\ result'.err \in {"Artifact hash cannot be zero",
                                       "Result hash cannot be zero"}
                   /\ result'.err = "Artifact hash cannot be zero"
                          => result'.zeroArtifactHash
                   /\ result'.err = "Result hash cannot be zero"
                          => result'.zeroResultHash
                   /\ UNCHANGED ledger
                   /\ ~HasReceipt(t)'
              ELSE result'.err = "ok" /\ HasReceipt(t)'
      ]_vars

\* a zero resultHash (with a non-zero artifactHash) was refused on a created task
C9_Witness ==
    /\ result.op = "submitReceipt"
    /\ result.err = "Result hash cannot be zero"
    /\ ~result.zeroArtifactHash
    /\ TaskExists(result.taskId)
    /\ ~HasReceipt(result.taskId)

\* C10: every stored Task has a non-zero specHash, every stored Receipt a
\* non-zero artifactHash and a non-zero resultHash.
C10_NoZeroDigestStored ==
    \A t \in TaskIds :
        /\ TaskExists(t) => tasks[t].specHash # ZeroHash
        /\ HasReceipt(t) =>
              receipts[t].artifactHash # ZeroHash /\ receipts[t].resultHash # ZeroHash

\* two tasks and a receipt are stored
C10_Witness ==
    /\ nextTaskId = 2
    /\ \E t \in TaskIds : HasReceipt(t)

(* ----------------------- the per-task state machine -------------------- *)
\* NONE = 0, CREATED = 1, RECEIPTED = 2, read off the two mappings
StateOf(t) ==
    IF HasReceipt(t) THEN 2 ELSE IF TaskExists(t) THEN 1 ELSE 0

\* C11: per task id the state only moves NONE -> CREATED -> RECEIPTED, one
\* stage per transaction and never backward; no call, successful or failing,
\* changes the requester, specHash or createdAt of a created Task, or any field
\* of a stored Receipt; RECEIPTED is terminal.
C11_ForwardOnly ==
    [][\A t \in TaskIds :
          /\ StateOf(t)' \in {StateOf(t), StateOf(t) + 1}
          /\ StateOf(t) = 2 => StateOf(t)' = 2
          /\ TaskExists(t) => tasks'[t] = tasks[t]
          /\ HasReceipt(t) => receipts'[t] = receipts[t]
          /\ StateOf(t)' # StateOf(t) =>
                /\ IsCall /\ result'.err = "ok"
                /\ StateOf(t)' = 1 => result'.op = "createTask" /\ result'.ret = t
                /\ StateOf(t)' = 2 => result'.op = "submitReceipt" /\ result'.taskId = t
      ]_vars

\* a RECEIPTED task is still RECEIPTED after a createTask that failed
C11_Witness ==
    /\ result.op = "createTask"
    /\ result.err # "ok"
    /\ StateOf(0) = 2
    /\ receipts[0].completedAt = now - 2

\* C12: receipt submission is permissionless: on an existing task without
\* receipt, a submitReceipt with two non-zero hashes succeeds whoever sends it,
\* the requester or another account, and the stored Receipt's operator is the
\* sender.
C12_Permissionless ==
    [][\A t \in TaskIds :
          (/\ IsSubmit(t) /\ StateOf(t) = 1
           /\ ~result'.zeroArtifactHash /\ ~result'.zeroResultHash) =>
              /\ result'.err = "ok"
              /\ receipts'[t].operator = result'.sender
              /\ result'.sender \in Callers
      ]_vars

\* the receipt of a task was just stored for an account that is not its requester
C12_Witness ==
    /\ result.op = "submitReceipt"
    /\ result.err = "ok"
    /\ receipts[result.taskId].operator = result.sender
    /\ tasks[result.taskId].requester # result.sender

\* the event a step emits, when it emits exactly one
Emitted == events'[Len(events')]
EmitsOne == Len(events') = Len(events) + 1 /\ SubSeq(events', 1, Len(events)) = events

\* C13: a successful createTask emits exactly one TaskCreated(taskId, requester,
\* specHash) with the fields of the Task it stored, a successful submitReceipt
\* exactly one ReceiptSubmitted(taskId, operator, artifactHash, resultHash) with
\* the fields of the Receipt it stored, a failed call emits nothing, and no run
\* ever holds two ReceiptSubmitted for one taskId.
C13_EventsMatchStorage ==
    /\ [](\A t \in TaskIds : Len(ReceiptEvents(t)) <= 1)
    /\ [][/\ (IsCall /\ result'.err # "ok") => events' = events
          /\ (IsCreate /\ result'.err = "ok") =>
                /\ EmitsOne
                /\ Emitted.name = "TaskCreated"
                /\ Emitted.taskId = result'.ret
                /\ Emitted.who = tasks'[result'.ret].requester
                /\ Emitted.specHash = tasks'[result'.ret].specHash
                /\ Emitted.who = result'.sender
          /\ \A t \in TaskIds : (IsSubmit(t) /\ result'.err = "ok") =>
                /\ EmitsOne
                /\ Emitted.name = "ReceiptSubmitted"
                /\ Emitted.taskId = t
                /\ Emitted.who = receipts'[t].operator
                /\ Emitted.artifactHash = receipts'[t].artifactHash
                /\ Emitted.resultHash = receipts'[t].resultHash
          /\ ~IsCall => events' = events
      ]_vars

\* one TaskCreated and one ReceiptSubmitted with two different hashes are in
\* the log, and the failed call made after them added nothing
C13_Witness ==
    /\ result.err # "ok"
    /\ Len(events) = 2
    /\ events[1].name = "TaskCreated"
    /\ events[2].name = "ReceiptSubmitted"
    /\ events[2].artifactHash # events[2].resultHash
    /\ now = 4

\* C14: the scratch directory of the disk phase is owned by at most one
\* in-flight benchmark run at any time: two runs whose disk phases overlap
\* never ensure, append to, read or remove the same scratch path.
C14_ScratchExclusive ==
    \A p \in Reqs, q \in Reqs :
        (p # q /\ InFlight(p) /\ InFlight(q)) => testDir(p) # testDir(q)

\* two disk phases overlapped on one path: a run read back the other run's
\* chunks along with its own, and the other run is still appending
C14_Witness ==
    \E p \in Reqs, q \in Reqs :
        /\ p # q /\ testDir(p) = testDir(q)
        /\ run[p].at = "remove" /\ run[p].bytesWritten > run[p].sizeMB
        /\ run[q].at = "appendFile" /\ run[q].i > 0

(* ---------------------- vocabulary of the cycle claims ----------------- *)
\* request p has been answered / answered with success: true
Answered(p) == pc[p] = "done"
Succeeded(p) == Answered(p) /\ loc[p].response.status = 200
\* this step is request p leaving its submitReceipt await
LeavesSubmit(p) == pc[p] = "submitReceipt" /\ pc'[p] # "submitReceipt"

\* C15: whenever an execute request is answered with success for a taskId, the
\* ledger holds a Receipt for that taskId with the artifactHash and resultHash
\* of the response; when the submitReceipt transaction reverts or is not
\* confirmed the request is answered with a failure carrying the ledger's error
\* message; a cycle sends submitReceipt once and never again.
C15_SuccessMeansReceipt ==
    /\ [](\A p \in Reqs : Succeeded(p) =>
            /\ HasReceipt(TaskOf(p))
            /\ receipts[TaskOf(p)].artifactHash = loc[p].response.artifactHash
            /\ receipts[TaskOf(p)].resultHash = loc[p].response.resultHash
            /\ receipts[TaskOf(p)].operator = Wallet)
    /\ [][\A p \in Reqs :
            /\ LeavesSubmit(p) =>
                  /\ Answered(p)'
                  /\ now' \in {now, now + 1}
                  /\ IsCall => IsSubmit(TaskOf(p))
                  /\ (IsCall /\ result'.err # "ok") =>
                        /\ loc'[p].response.status = 500
                        /\ loc'[p].response.error = result'.err
                        /\ UNCHANGED ledger
                  /\ ~IsCall =>
                        /\ loc'[p].response.status = 500
                        /\ loc'[p].response.error = "transaction failed"
                        /\ UNCHANGED ledger
                  /\ Succeeded(p)' <=> (IsCall /\ result'.err = "ok")
            \* no other step of the request sends a transaction
            /\ (pc'[p] # pc[p] /\ ~LeavesSubmit(p)) => ~IsCall
      ]_vars

\* one request was answered with success, another request for the same task had
\* its submitReceipt reverted and was answered with the revert reason
C15_Witness ==
    \E p \in Reqs, q \in Reqs :
        /\ Succeeded(p)
        /\ Answered(q) /\ TaskOf(q) = TaskOf(p)
        /\ loc[q].response.status = 500
        /\ loc[q].response.error = "Receipt already submitted"

\* the awaits of uploadToGreenfield
UploadPcs == {"upload", "upReaddir", "upFile", "upCreateObject", "upUploadObject"}
\* request p never shared its cycle with another request: a second place is
\* taken only while the first is in flight
RanAlone(p) == \A q \in Reqs : q # p => pc[q] = "idle"
\* the hashes of the three files createArtifactFolder writes for result r
LocalArtifactHash(r) ==
    keccak256(Concat(<<keccak256(LogContent), keccak256(MetricsContent(r)),
                       keccak256(ResultContent(r))>>))
LocalResultHash(r) == keccak256(ResultContent(r))

\* C16: an upload failure, before the first file or after some files were
\* uploaded, does not abort the cycle: uploadToGreenfield ends with the locator
\* of the taskId, the same as after a successful upload, and the cycle goes on
\* to submit the artifactHash and resultHash of its local files, whatever the
\* bucket holds.
C16_UploadFailureDoesNotAbort ==
    /\ [](\A p \in Reqs :
            (pc[p] \in {"createReceipt", "submitReceipt"} /\ RanAlone(p)) =>
                /\ loc[p].artifactHash = LocalArtifactHash(loc[p].benchmarkResults)
                /\ loc[p].resultHash = LocalResultHash(loc[p].benchmarkResults)
                /\ loc[p].artifactUrl = ArtifactUrl(TaskOf(p)))
    /\ [][\A p \in Reqs :
            /\ (pc[p] \in UploadPcs /\ pc'[p] # pc[p]) =>
                  /\ pc'[p] \in UploadPcs \cup {"hashReaddir"}
                  /\ pc'[p] = "hashReaddir" =>
                        loc'[p].artifactUrl = ArtifactUrl(TaskOf(p))
                  /\ UNCHANGED <<dirs, ledger>>
            /\ (LeavesSubmit(p) /\ IsCall /\ result'.err = "ok") =>
                  /\ receipts'[TaskOf(p)].artifactHash = loc[p].artifactHash
                  /\ receipts'[TaskOf(p)].resultHash = loc[p].resultHash
      ]_vars

\* the upload failed after execution.log was stored and before result.json was,
\* and the cycle, alone on the backend, has its receipt on the ledger
C16_Witness ==
    \E p \in Reqs :
        /\ Succeeded(p) /\ RanAlone(p) /\ cycles = 1
        /\ storage[TaskOf(p)][ExecutionLog] = LogContent
        /\ storage[TaskOf(p)][ResultJson] = NoFile
        /\ receipts[TaskOf(p)].resultHash = keccak256(dirs[TaskOf(p)].files[ResultJson])

\* C17: when a benchmark phase fails with an I/O error the cycle ends there
\* with a failure response: the request holds no BenchmarkResult, that step and
\* the request's later life write no artifact file, upload nothing and send no
\* submitReceipt; artifact processing is entered only with a BenchmarkResult.
C17_BenchmarkFailureAborts ==
    [][\A p \in Reqs :
          /\ (pc[p] = "runBenchmark" /\ pc'[p] = "done") =>
                /\ loc'[p].response.status = 500
                /\ loc'[p].response.error = "benchmark I/O error"
                /\ loc'[p].benchmarkResults \notin Results
                /\ UNCHANGED <<dirs, storage, ledger, now>>
          /\ (pc[p] = "runBenchmark" /\ pc'[p] \notin {"runBenchmark", "done"}) =>
                pc'[p] = "remove" /\ loc'[p].benchmarkResults \in Results
          /\ (pc'[p] # pc[p] /\ pc'[p] \notin {"done", "runBenchmark"}) =>
                loc'[p].benchmarkResults \in Results
          \* an answered request does nothing until it is replaced by a new one
          /\ (Answered(p) /\ pc'[p] # pc[p]) => pc'[p] = "runBenchmark" /\ cycles' = cycles + 1
      ]_vars

\* the only cycle so far failed in the benchmark: its task exists and is still
\* without receipt, and there is neither an artifact folder nor a stored object
C17_Witness ==
    \E p \in Reqs :
        /\ Answered(p) /\ cycles = 1
        /\ loc[p].response.error = "benchmark I/O error"
        /\ TaskExists(TaskOf(p)) /\ ~HasReceipt(TaskOf(p))
        /\ dirs[TaskOf(p)] = NoDir
        /\ storage[TaskOf(p)] = EmptyDir

\* C18: when a cycle's submitReceipt is rejected because another operator's
\* receipt for the taskId is already on the ledger, the request is answered as
\* a benign race outcome, not with the response of an application error.
C18_ConflictIsBenign ==
    \A p \in Reqs :
        (/\ Answered(p)
         /\ loc[p].response.error = "Receipt already submitted"
         /\ receipts[TaskOf(p)].operator \notin {ZeroAddress, Wallet}) =>
            loc[p].response.status # 500

\* the other operator's receipt is on the ledger, and the backend's cycle for
\* the same task was answered like any failed cycle
C18_Witness ==
    \E p \in Reqs :
        /\ Answered(p)
        /\ receipts[TaskOf(p)].operator \in Callers \ {Wallet}
        /\ loc[p].response =
              [status |-> 500, error |-> "Receipt already submitted",
               artifactHash |-> ZeroHash, resultHash |-> ZeroHash]

\* C19: within one cycle the steps come in the order benchmark, artifact set
\* with artifactHash and resultHash, upload, submitReceipt, response; in
\* particular both hashes are computed before the upload begins.
C19_HashesBeforeUpload ==
    \A p \in Reqs :
        pc[p] \in UploadPcs =>
            loc[p].artifactHash # ZeroHash /\ loc[p].resultHash # ZeroHash

\* a file of the cycle is already stored in the bucket and the cycle has not
\* computed a hash yet
C19_Witness ==
    \E p \in Reqs :
        /\ pc[p] = "upFile" /\ cycles = 1
        /\ storage[TaskOf(p)][ExecutionLog] = LogContent
        /\ loc[p].artifactHash = ZeroHash /\ loc[p].resultHash = ZeroHash

\* the regular files of a folder, and their names in lexicographic order
RegularFiles(f) == {n \in Names : f[n] \in FileBytes}
RECURSIVE InNameOrder(_)
InNameOrder(S) ==
    IF S = {} THEN <<>>
    ELSE LET first == CHOOSE n \in S : \A m \in S \ {n} : LexLess(n, m)
         IN  <<first>> \o InNameOrder(S \ {first})
\* H(concatenation of H(content) in lexicographic filename order)
FolderHash(f) ==
    LET order == InNameOrder(RegularFiles(f))
    IN  keccak256(Concat([i \in 1..Len(order) |-> keccak256(f[order[i]])]))
Hashed == hashing.at \in {"readResult", "returned", "thrown"}

SameSpec(a, b) == {a[i] : i \in 1..Len(a)} = {b[i] : i \in 1..Len(b)}
BothHashed == \A w \in Which : specHashes[w] # NoSpecHash

\* C21: two task specifications with the same keys and values, built with
\* their top-level keys in different insertion orders, serialize to the same
\* bytes under hashJSON and get the same specHash.
C21_CanonicalSerialization ==
    BothHashed /\ SameSpec(taskSpecs[1], taskSpecs[2]) =>
        /\ specHashes[1][1].sortedJSON = specHashes[2][1].sortedJSON
        /\ specHashes[1][1].hash = specHashes[2][1].hash

\* the same specification, inserted in two different orders, was hashed twice
C21_Witness ==
    /\ BothHashed
    /\ SameSpec(taskSpecs[1], taskSpecs[2])
    /\ taskSpecs[1] # taskSpecs[2]

\* C30: two task specifications that differ in any field, a value nested
\* inside config included, have different serializations under hashJSON and
\* so different specHashes.
C30_SpecHashBindsWholeSpec ==
    BothHashed /\ ~SameSpec(taskSpecs[1], taskSpecs[2]) =>
        /\ specHashes[1][1].sortedJSON # specHashes[2][1].sortedJSON
        /\ specHashes[1][1].hash # specHashes[2][1].hash

\* two specifications that differ in config.diskSizeMB and in nothing else
\* were given the same specHash
C30_Witness ==
    /\ BothHashed
    /\ \E ty \in Values, dur \in Durations, mem \in Values, at \in Values :
       \E d1, d2 \in Values :
          /\ d1 # d2
          /\ taskSpecs[1] = TaskSpecOf(ty, dur, mem, d1, at)
          /\ taskSpecs[2] = TaskSpecOf(ty, dur, mem, d2, at)
    /\ specHashes[1][1].hash = specHashes[2][1].hash

(* ------------------- vocabulary of the GET claims --------------------- *)
\* this step sends the response to a GET request
Sent == answers' # answers
Last == answers'[Len(answers')]
\* the responses that report a task
Reports == {i \in DOMAIN answers : answers[i].task # <<>>}

\* C22: the status reported for an existing task is PENDING when no Receipt
\* exists for it and COMPLETED when one does; a report of COMPLETED is never
\* followed by one of PENDING; the absence of a receipt is reported as null
\* in a successful response, not as an error.
C22_StatusFollowsReceipt ==
    /\ [][Sent /\ Last.task # <<>> =>
            LET t == Last.task[1].taskId
            IN  /\ TaskExists(t)
                /\ Last.code = 200 /\ Last.success
                /\ Last.status = IF HasReceipt(t) THEN "COMPLETED" ELSE "PENDING"
                /\ Last.receipt = IF HasReceipt(t) THEN <<receipts[t]>> ELSE <<>>]_vars
    /\ [](\A i, j \in Reports :
            /\ i < j
            /\ answers[i].task[1].taskId = answers[j].task[1].taskId
            /\ answers[i].status = "COMPLETED"
            => answers[j].status = "COMPLETED")

\* task 0 was reported PENDING with a null receipt, and later COMPLETED
C22_Witness ==
    \E i, j \in Reports :
        /\ i < j
        /\ answers[i].task[1].taskId = 0 /\ answers[j].task[1].taskId = 0
        /\ answers[i].status = "PENDING" /\ answers[i].receipt = <<>>
        /\ answers[i].code = 200
        /\ answers[j].status = "COMPLETED" /\ answers[j].receipt # <<>>

C28_HealthIsAnsweredHealthy ==
    \A i \in DOMAIN answers :
        answers[i].segment = "health" =>
            /\ answers[i].route = "/health"
            /\ answers[i].success /\ answers[i].status = "healthy"

\* GET /tasks/health was answered 400 'Invalid task ID' by the task lookup
C28_Witness ==
    \E i \in DOMAIN answers :
        /\ answers[i].segment = "health"
        /\ answers[i].route = "/:taskId"
        /\ answers[i].code = 400 /\ answers[i].error = "Invalid task ID"

\* this step is the return of processArtifacts for request p
ProcessArtifactsReturns(p) == pc[p] = "createReceipt" /\ pc'[p] = "submitReceipt"
\* the files of a task's artifact directory
FilesOf(t) == IF dirs[t].exists THEN {f \in FileNames : dirs[t].files[f] # NoFile} ELSE {}

\* C24: when processArtifacts completes for a taskId, the task's artifact
\* directory contains exactly the four files execution.log, metrics.json,
\* result.json and receipt.json, whatever was in the directory before.
C24_FourFilesAfterProcessArtifacts ==
    [][\A p \in Reqs :
          ProcessArtifactsReturns(p) =>
              /\ dirs'[TaskOf(p)].exists
              /\ \A f \in FileNames : dirs'[TaskOf(p)].files[f] # NoFile]_vars

\* processArtifacts has returned for a request and the directory of its task
\* holds receipt.json and nothing else
C24_Witness ==
    \E p \in Reqs :
        /\ pc[p] = "submitReceipt"
        /\ FilesOf(TaskOf(p)) = {ReceiptJson}

\* this step is the call of runBenchmark for request p: its CPU phase and its
\* memory phase run in it, and its disk phase starts
RunsCpuAndMemory(p) == ~InFlight(p) /\ run'[p].at = "ensureDir"
\* the disk phase of request p has started and has not ended
DiskInProgress(p) == InFlight(p)
PhaseOrder == <<"cpu", "memory", "disk">>

\* C25: within one cycle the CPU, memory and disk phases run in that order,
\* each after the previous one has completed, and no two benchmark phases
\* are ever in progress at once, also with several execute requests in
\* flight.
C25_PhasesNeverOverlap ==
    /\ [](\A p \in Reqs :
            /\ Len(run[p].phases) <= Len(PhaseOrder)
            /\ run[p].phases = SubSeq(PhaseOrder, 1, Len(run[p].phases))
            /\ DiskInProgress(p) => run[p].phases = <<"cpu", "memory">>)
    /\ [][\A p \in Reqs, q \in Reqs :
            p # q /\ RunsCpuAndMemory(p) => ~DiskInProgress(q)]_vars
    /\ [](\A p \in Reqs, q \in Reqs : p # q => ~(DiskInProgress(p) /\ DiskInProgress(q)))

\* the CPU and memory phases of one request have run while the disk phase of
\* another was half-way through its writes, and both disk phases are under way
C25_Witness ==
    \E p \in Reqs, q \in Reqs :
        /\ p # q
        /\ run[q].at = "appendFile" /\ run[q].i = 1 /\ run[q].sizeMB = 2
        /\ run[p].at = "ensureDir" /\ run[p].phases = <<"cpu", "memory">>

\* C26: the client's createTask returns only after its transaction is
\* confirmed, and the taskId it returns is the id the ledger assigned to the
\* Task created by that same transaction, also when other clients create
\* tasks concurrently; without a TaskCreated event in the receipt it fails
\* instead of returning an id.
C26_ReturnsOwnTaskId ==
    \A c \in Callers :
        /\ clients[c].taskId # NoValue =>
              /\ clients[c].at = "returned"
              /\ clients[c].blockNumber # 0
              /\ tasks[clients[c].taskId] =
                     Task(c, clients[c].specHash, clients[c].blockNumber)
        /\ clients[c].at \in {"idle", "sent", "mined", "thrown"} =>
              clients[c].taskId = NoValue
        /\ clients[c].at = "returned" =>
              \E i \in DOMAIN clients[c].logs :
                  /\ clients[c].logs[i].name = "TaskCreated"
                  /\ clients[c].logs[i].taskId = clients[c].taskId
        /\ (clients[c].at \in {"returned", "thrown"} /\ clients[c].blockNumber # 0
            /\ \A i \in DOMAIN clients[c].logs : clients[c].logs[i].name # "TaskCreated")
              => clients[c].at = "thrown" /\ clients[c].taskId = NoValue

\* an account's createTask returned id 0 after the other account's
\* transaction, sent later, had been mined and created task 1
C26_Witness ==
    \E c \in Callers, d \in Callers :
        /\ c # d
        /\ clients[c].at = "returned" /\ clients[c].taskId = 0
        /\ clients[d].at \in {"mined", "returned"} /\ clients[d].blockNumber > clients[c].blockNumber
        /\ nextTaskId = 2

\* the lines of a are lines of b, in the same order
RECURSIVE IsSubsequence(_, _)
IsSubsequence(a, b) ==
    IF a = <<>> THEN TRUE
    ELSE IF b = <<>> THEN FALSE
    ELSE IF Head(a) = Head(b) THEN IsSubsequence(Tail(a), Tail(b))
    ELSE IsSubsequence(a, Tail(b))

\* C27: every progress line a benchmark phase emits during a cycle is in that
\* cycle's execution.log, in the order the lines were emitted.
C27_ProgressLinesAreLogged ==
    \A p \in Reqs :
        logger.at[p] = "restore" => IsSubsequence(logger.emitted[p], logger.executionLog[p])

\* a cycle that ran alone wrote an execution.log with the start and end lines
\* of its three phases and none of the progress lines they emitted
C27_Witness ==
    \E p \in Reqs :
        /\ logger.at[p] = "restore"
        /\ \A q \in Reqs : q # p => logger.at[q] = "idle"
        /\ Len(logger.emitted[p]) = 3
        /\ Len(logger.executionLog[p]) = 6
        /\ \A i \in DOMAIN logger.executionLog[p] : logger.executionLog[p][i].text # "progress"

\* this step is the normal return of diskTest for request p
DiskTestReturns(p) == run[p].at = "remove" /\ run'[p].at = "returned"

\* C29: every diskTest(sizeMB) that returns normally reports bytesWritten
\* equal to sizeMB chunks of 1,048,576 bytes and leaves no scratch directory
\* behind, whatever earlier runs did, a run that failed between its first
\* write and its cleanup included. (Lengths are counted in chunks.)
C29_DiskTestReportsItsOwnBytes ==
    [][\A p \in Reqs :
          DiskTestReturns(p) =>
              /\ run'[p].bytesWritten = run'[p].sizeMB
              /\ ~scratch'[testDir(p)].exists]_vars

\* no two runs ever overlapped: the first run failed after a write, and the
\* second returned a bytesWritten larger than its sizeMB
C29_Witness ==
    /\ cycles = 2
    /\ \A p \in Reqs : p # 1 => run[p] = NoRun
    /\ run[1].at = "returned"
    /\ run[1].bytesWritten > run[1].sizeMB

\* the request that was in place p has finished
LogFinished(p) == logger.at[p] = "idle" /\ logger.id[p] # 0
\* the wrapper of the request numbered id is reached by a call of logger.info
Installed(id) == \E i \in DOMAIN logger.info : logger.info[i] = id

\* C31: after an execute request has finished, however it ended and whatever
\* the interleaving, no captured log buffer of it keeps receiving lines, and
\* once all have finished logger.info is the original function again.
C31_LoggerIsRestored ==
    /\ \A p \in Reqs : LogFinished(p) => ~Installed(logger.id[p])
    /\ (\A p \in Reqs : logger.at[p] = "idle") => logger.info = <<>>

\* one request, alone, failed in its benchmark or its artifact processing:
\* it has finished and its wrapper is still what logger.info is
C31_Witness ==
    /\ logger.received = 1
    /\ \A p \in Reqs : logger.at[p] = "idle"
    /\ logger.info = <<1>>

\* what a cycle announces through logger.info up to its artifact creation
LoggedBy(id) == Append(Announced(id), Line(id, "disk", "completed", 0))

\* C32: the execution.log a cycle writes holds exactly the log lines of that
\* cycle, each once and in order, and no line of another execute request.
C32_ExecutionLogIsOwnLines ==
    \A p \in Reqs :
        logger.at[p] = "restore" => logger.executionLog[p] = LoggedBy(logger.id[p])

\* the execution.log of one request holds a line of the other request, which
\* was in flight at the same time
C32_Witness ==
    \E p \in Reqs, q \in Reqs :
        /\ p # q
        /\ logger.at[p] = "restore" /\ logger.at[q] # "idle"
        /\ \E i \in DOMAIN logger.executionLog[p] :
              logger.executionLog[p][i].by = logger.id[q]
        /\ IsSubsequence(LoggedBy(logger.id[p]), logger.executionLog[p])

\* request p is between the start of its upload and the end of its hashing
UploadedNotHashed(p) == pc[p] \in UploadPcs \cup {"hashReaddir", "hashFile", "readResult"}

\* C33: between the upload and the hashing of a task's artifact directory in
\* a cycle no file of the directory is added, removed or rewritten, so the
\* files hashed are the files handed to storage; also when two execute
\* requests for the same taskId run concurrently.
C33_HashedFilesAreUploadedFiles ==
    [][\A p \in Reqs :
          UploadedNotHashed(p) => dirs'[TaskOf(p)] = dirs[TaskOf(p)]]_vars

\* a cycle handed its result.json to storage and is about to hash, as
\* result.json, the different file a concurrent cycle has written since
C33_Witness ==
    \E p \in Reqs :
        /\ pc[p] = "readResult" /\ configured
        /\ storage[TaskOf(p)][ResultJson] = ResultContent(loc[p].benchmarkResults)
        /\ dirs[TaskOf(p)].files[ResultJson] \notin
              {NoFile, ResultContent(loc[p].benchmarkResults)}

\* what hashArtifactFolder gives for the task's artifact directory when
\* receipt.json is left out
HashWithoutReceipt(t) ==
    LET listed == SelectSeq(<<ExecutionLog, MetricsJson, ResultJson>>,
                            LAMBDA f : f \in FilesOf(t))
    IN  keccak256(Concat([i \in DOMAIN listed |-> keccak256(dirs[t].files[listed[i]])]))

\* C34: once a task has a Receipt on the ledger, its local artifact directory
\* keeps hashing to the ledger's artifactHash (over its files other than
\* receipt.json), also through a later cycle that the ledger rejects.
C34_ArtifactsOfWinnerAreKept ==
    \A t \in TaskIds : HasReceipt(t) => HashWithoutReceipt(t) = receipts[t].artifactHash

\* two cycles ran one after the other; the ledger rejected the second, whose
\* files are what the directory holds, and they hash to another value than
\* the ledger's
C34_Witness ==
    \E p \in Reqs :
        /\ RanAlone(p) /\ cycles = 2 /\ Answered(p)
        /\ loc[p].response.error = "Receipt already submitted"
        /\ FilesOf(TaskOf(p)) = FileNames
        /\ HashWithoutReceipt(TaskOf(p)) # receipts[TaskOf(p)].artifactHash

\* C35: submitReceipt checks its failure conditions in a fixed order: a
\* missing task is reported as "Task does not exist" and an existing receipt
\* as "Receipt already submitted" even when a hash is zero, a zero
\* artifactHash is reported before a zero resultHash, and a failing call
\* reports exactly one of the four reasons.
C35_FailureReasonsInOrder ==
    [][\A t \in TaskIds :
          IsSubmit(t) =>
              result'.err =
                  CASE ~TaskExists(t) -> "Task does not exist"
                    [] TaskExists(t) /\ HasReceipt(t) -> "Receipt already submitted"
                    [] TaskExists(t) /\ ~HasReceipt(t) /\ result'.zeroArtifactHash
                           -> "Artifact hash cannot be zero"
                    [] TaskExists(t) /\ ~HasReceipt(t) /\ ~result'.zeroArtifactHash
                           /\ result'.zeroResultHash -> "Result hash cannot be zero"
                    [] OTHER -> "ok"
      ]_vars

\* a submission with two zero hashes for a task that has its receipt was
\* refused as a duplicate
C35_Witness ==
    /\ result.op = "submitReceipt"
    /\ result.err = "Receipt already submitted"
    /\ result.zeroArtifactHash /\ result.zeroResultHash
    /\ HasReceipt(result.taskId)

\* n is a prime number
IsPrimeNumber(n) == n >= 2 /\ \A d \in 2..(n - 1) : n % d # 0
\* the number of primes in a..b
PrimesIn(a, b) == Cardinality({n \in a..b : IsPrimeNumber(n)})

\* C36: the CPU phase tests the integers 2, 3, 4, ... once each; isPrime(n)
\* is true exactly for the prime n, so a run that reports iterations = k
\* reports primesFound = the number of primes in [2, k+1], and primesFound
\* is never more than iterations.
C36_PrimesFoundCountsPrimes ==
    /\ [](cpuLoop.at # "idle" =>
            /\ cpuLoop.num = cpuLoop.iterations + 2
            /\ \A n \in 0..(cpuLoop.num - 1) : isPrime(n) <=> IsPrimeNumber(n)
            /\ cpuLoop.primeCount = PrimesIn(2, cpuLoop.iterations + 1)
            /\ cpuLoop.primeCount <= cpuLoop.iterations)
    /\ [](cpuLoop.at = "returned" =>
            /\ cpuLoop.returned.primesFound =
                   PrimesIn(2, cpuLoop.returned.iterations + 1)
            /\ cpuLoop.returned.primesFound <= cpuLoop.returned.iterations)
    /\ [][cpuLoop.at = "loop" /\ cpuLoop'.at = "loop" =>
             cpuLoop'.num = cpuLoop.num + 1]_vars

\* a run that tested 2..50, the square of a prime among them, has returned
\* 49 iterations and the 15 primes up to 50
C36_Witness ==
    /\ cpuLoop.at = "returned"
    /\ cpuLoop.returned = [iterations |-> 49, primesFound |-> 15]

\* the moves of the status the flow is described with: forward one step, or
\* back to idle when a call fails
StatusMoves ==
    {<<"idle", "created">>, <<"created", "running">>, <<"running", "completed">>,
     <<"created", "idle">>, <<"running", "idle">>}
\* this step starts a flow / is the failure of a call of the flow
FlowStarts == web'.flows = web.flows + 1
CallFails == web.at # "idle" /\ web'.at = "idle" /\ web'.executeResponse = Undefined

\* C37: in the web client's flow the status only moves idle -> created ->
\* running -> completed; completed is reached only after the create and the
\* execute response of that flow, with that flow's receiptTxHash and
\* artifactUrl; a failing call returns the state to idle with taskId,
\* receiptTxHash and artifactUrl cleared; isProcessing is false after every
\* flow ends and no second flow starts while it is true.
C37_StatusMovesForward ==
    /\ [][web'.taskStatus # web.taskStatus =>
             <<web.taskStatus, web'.taskStatus>> \in StatusMoves]_vars
    /\ [](web.taskStatus = "completed" =>
             /\ web.createResponse # Undefined /\ web.executeResponse # Undefined
             /\ web.receiptTxHash = web.executeResponse[1]
             /\ web.artifactUrl = web.executeResponse[2])
    /\ [][CallFails =>
             /\ web'.taskStatus = "idle" /\ web'.taskId = Undefined
             /\ web'.receiptTxHash = Undefined /\ web'.artifactUrl = Undefined]_vars
    /\ [](web.at = "idle" => ~web.isProcessing)
    /\ [][FlowStarts => ~web.isProcessing /\ web.at = "idle"]_vars

\* a second flow has started after a completed one: the status went from
\* completed to created, and the card shows the task id of the first flow
C37_Witness ==
    /\ web.taskStatus = "created" /\ web.flows = 2
    /\ web.toasts = <<"Task Created", "Task Completed">>
    /\ web.taskId # Undefined

====
